---- MODULE Spec2Model ----
(***************************************************************************)
(* FINA (ERP) -> Shopify reconciliation: the chunked sync route            *)
(* app/routes/api.sync.jsx (bounded worker pool, batched lookups, bulk     *)
(* price writes) and the original sequential sync route                    *)
(* (src/unnamed/part_003).                                                 *)
(*                                                                         *)
(* Units.  A quantity of the ERP is a decimal; it is held here as a number *)
(* of 1/UnitsPerItem items, so Math.floor is a division.  A price is held  *)
(* as a number of 1/UnitsPerCent cents, so the 0.01 tolerance is           *)
(* UnitsPerCent units and toFixed(2) rounds to a multiple of UnitsPerCent. *)
(* Storefront prices are money values: whole cents.                        *)
(***************************************************************************)
EXTENDS Integers, Sequences, FiniteSets, TLC

\* ------------------------------------------------------------------ scale
UnitsPerItem == 2
UnitsPerCent == 2

\* Sizes of api.sync.jsx / part_003, scaled down to the catalogs of the model
\* (the source has 250, 50 and 30).
INTERNAL_CHUNK_SIZE == 3     \* products of an internal chunk
BATCH_SIZE == 1              \* skus of a lookup query (preloadChunkVariants)
CONCURRENCY == 2             \* runners of the worker pool

\* Program constants, as in the source.
DEFAULT_LIMIT == 1500
RESULTS_CAP == 50

\* ------------------------------------------------------------------ bounds
MaxInvocations == 4   \* invocations of the action in one behaviour
MaxRepeats == 2       \* invocations when one request is repeated
MaxOffset == 3        \* largest offset a request carries
MaxLimit == 3         \* largest limit a request carries (besides the default)
MaxProducts == 4      \* largest catalog of the chunk worlds
MaxDeliveries == 2    \* deliveries of the order webhook for the one order
MaxPageProducts == 3  \* largest catalog of the sync page's runs
PageLimit == 1        \* the route's default limit, in the sync page's runs
MaxRest == 3          \* largest ERP quantity, in 1/UnitsPerItem items
MaxPrice == 5         \* largest ERP price, in 1/UnitsPerCent cents
MaxShopQty == 1       \* largest quantity a storefront variant starts with
MaxShopCents == 2     \* largest price a storefront variant starts with, in cents

\* ------------------------------------------------------------- JS values
\* null / undefined of a looked-up attribute value
Null == "null"

Min(a, b) == IF a < b THEN a ELSE b
Abs(x) == IF x < 0 THEN -x ELSE x
CeilDiv(a, b) == (a + b - 1) \div b

\* lookup `m[k] || 0` and `m[k] ?? 0` on a map held as a function
GetOr0(m, k) == IF k \in DOMAIN m THEN m[k] ELSE 0

\* Math.floor of a quantity held in 1/UnitsPerItem items
MathFloor(q) == q \div UnitsPerItem

\* A faulty price format for sensitivity runs of C6: toFixed(0), the nearest whole
\* currency unit.
toFixed0(p) == ((p + 50 * UnitsPerCent) \div (100 * UnitsPerCent)) * (100 * UnitsPerCent)

\* Number.prototype.toFixed(2) of a price: the nearest whole cent (half up)
toFixed2(p) == ((p + UnitsPerCent \div 2) \div UnitsPerCent) * UnitsPerCent

\* A faulty field parser for sensitivity runs of C10: `parseInt(raw) || dflt`, which
\* takes a text that is no number (and a zero) for the default.
parseIntField_orDefault(raw, dflt) ==
  IF raw.kind = "num" /\ raw.n # 0 THEN [isNaN |-> FALSE, n |-> raw.n]
  ELSE [isNaN |-> FALSE, n |-> dflt]

\* parseInt of a form field.  A raw field is [kind |-> "absent"], a text that
\* does not start with a number [kind |-> "text"], or a number
\* [kind |-> "num", n |-> ...].  `formData.get(k) || dflt` puts the default in
\* place of an absent (or empty) field before parseInt reads it.
parseIntField(raw, dflt) ==
  CASE raw.kind = "absent" -> [isNaN |-> FALSE, n |-> dflt]
    [] raw.kind = "text"   -> [isNaN |-> TRUE,  n |-> 0]
    [] OTHER               -> [isNaN |-> FALSE, n |-> raw.n]

\* ---------------------------------------------------------------- ERP side
\* A product of the catalog: [id, code, add_fields], add_fields a sequence of
\* [field, value].  A quantity item: [id, rest].  A price item:
\* [product_id, price_id, price].
B2C_PRICE_ID == 3
B2B_PRICE_ID == 5

\* `for (const item of finaQuantities) quantityMap[item.id] = item.rest`:
\* the last item of an id is the one the map keeps
buildQuantityMap(items) ==
  [id \in {items[k].id : k \in DOMAIN items} |->
     LET last == CHOOSE k \in DOMAIN items :
                   /\ items[k].id = id
                   /\ \A j \in DOMAIN items : items[j].id = id => j <= k
     IN items[last].rest]

\* the price loop: price_id 3 fills the B2C map, 5 the B2B map, others are ignored
buildPriceMap(items, priceId) ==
  LET ks == {k \in DOMAIN items : items[k].price_id = priceId} IN
  [pid \in {items[k].product_id : k \in ks} |->
     LET last == CHOOSE k \in ks :
                   /\ items[k].product_id = pid
                   /\ \A j \in ks : items[j].product_id = pid => j <= k
     IN items[last].price]

\* products.slice(a, b) with 0-based bounds on a 1-based sequence
Slice(s, a, b) ==
  LET lo == Min(a, Len(s))
      hi == Min(b, Len(s))
  IN IF hi <= lo THEN <<>> ELSE SubSeq(s, lo + 1, hi)

\* ------------------------------------------------------- visibility resolver
RECURSIVE visibilityFold(_, _)
\* A faulty resolver for sensitivity runs of C21: the first entry of a key wins.
visibilityFold_firstWins(fields, visibility) ==
  IF fields = <<>> THEN visibility
  ELSE LET f == Head(fields)
           v == IF f.value = Null THEN "" ELSE f.value
           rest == visibilityFold(Tail(fields), visibility)
       IN IF f.field = "usr_column_503" THEN [rest EXCEPT !.b2c = v]
          ELSE IF f.field = "usr_column_504" THEN [rest EXCEPT !.b2b = v]
          ELSE rest
visibilityFold(fields, visibility) ==
  IF fields = <<>> THEN visibility
  ELSE LET f == Head(fields)
           v == IF f.value = Null THEN "" ELSE f.value     \* field.value || ''
       IN visibilityFold(Tail(fields),
            IF f.field = "usr_column_503" THEN [visibility EXCEPT !.b2c = v]
            ELSE IF f.field = "usr_column_504" THEN [visibility EXCEPT !.b2b = v]
            ELSE visibility)

\* getProductVisibility of api.sync.jsx
getProductVisibility(product) ==
  visibilityFold(product.add_fields, [b2c |-> "1", b2b |-> "1"])

\* getProductVisibility of the sequential route (forEach, same assignments)
getProductVisibility_seq(product) ==
  visibilityFold(product.add_fields, [b2c |-> "1", b2b |-> "1"])

\* ------------------------------------------------------------ delta calculator
\* api.sync.jsx, the worker's first lines: the ERP values of one product
finaValues(product, quantityMap, b2cPriceMap, b2bPriceMap) ==
  LET visibility == getProductVisibility(product)
      isB2CVisible == (visibility.b2c = "1")
      isB2BVisible == (visibility.b2b = "1")
  IN [isB2CVisible |-> isB2CVisible,
      isB2BVisible |-> isB2BVisible,
      finaQuantity |-> IF isB2CVisible \/ isB2BVisible
                       THEN MathFloor(GetOr0(quantityMap, product.id)) ELSE 0,
      finaB2cPrice |-> IF isB2CVisible THEN GetOr0(b2cPriceMap, product.id) ELSE 0,
      finaB2bPrice |-> IF isB2BVisible THEN GetOr0(b2bPriceMap, product.id) ELSE 0]

\* sequential route: the quantity is read only when B2C is visible
finaValues_seq(product, quantityMap, b2cPriceMap, b2bPriceMap) ==
  LET visibility == getProductVisibility_seq(product)
      isB2CVisible == (visibility.b2c = "1")
      isB2BVisible == (visibility.b2b = "1")
  IN [isB2CVisible |-> isB2CVisible,
      isB2BVisible |-> isB2BVisible,
      finaQuantity |-> IF isB2CVisible
                       THEN MathFloor(GetOr0(quantityMap, product.id)) ELSE 0,
      finaB2cPrice |-> IF isB2CVisible THEN GetOr0(b2cPriceMap, product.id) ELSE 0,
      finaB2bPrice |-> IF isB2BVisible THEN GetOr0(b2bPriceMap, product.id) ELSE 0]

\* A faulty price comparison for sensitivity runs of C4: no tolerance.
PriceWithinTolerance_exact(shopifyPrice, targetPrice) ==
  shopifyPrice = targetPrice

\* the price comparison of both routes: Math.abs(shopifyPrice - targetPrice) <= 0.01
PriceWithinTolerance(shopifyPrice, targetPrice) ==
  Abs(shopifyPrice - targetPrice) <= UnitsPerCent

\* A faulty delta calculator for sensitivity runs of C1: the variant of a hidden
\* channel keeps the ERP quantity instead of being zeroed.
evalVariant_keepsHidden(fina, variant, vIndex) ==
  LET shopifyQuantity == variant.inventoryQuantity
      shopifyPrice == variant.price
      hasPriceData == vIndex \in {0, 1}
      targetQuantity == IF hasPriceData THEN fina.finaQuantity ELSE shopifyQuantity
      targetPrice == IF vIndex = 0 THEN fina.finaB2cPrice
                     ELSE IF vIndex = 1 THEN fina.finaB2bPrice ELSE shopifyPrice
  IN [targetQuantity |-> targetQuantity,
      quantityDefined |-> TRUE,
      targetPrice |-> targetPrice,
      hasPriceData |-> hasPriceData,
      quantityMatches |-> (targetQuantity = shopifyQuantity),
      priceMatches |-> IF hasPriceData
                       THEN PriceWithinTolerance(shopifyPrice, targetPrice) ELSE TRUE]

\* api.sync.jsx, the head of the variant loop: targets and the two comparisons of
\* the variant at position vIndex.  A variant past position 1 keeps its own values.
evalVariant(fina, variant, vIndex) ==
  LET shopifyQuantity == variant.inventoryQuantity
      shopifyPrice == variant.price
      isB2C == (vIndex = 0)
      isB2B == (vIndex = 1)
      targetQuantity ==
        IF isB2C THEN (IF fina.isB2CVisible THEN fina.finaQuantity ELSE 0)
        ELSE IF isB2B THEN (IF fina.isB2BVisible THEN fina.finaQuantity ELSE 0)
        ELSE shopifyQuantity
      targetPrice ==
        IF isB2C THEN fina.finaB2cPrice
        ELSE IF isB2B THEN fina.finaB2bPrice
        ELSE shopifyPrice
      hasPriceData == isB2C \/ isB2B
  IN [targetQuantity |-> targetQuantity,
      quantityDefined |-> TRUE,
      targetPrice |-> targetPrice,
      hasPriceData |-> hasPriceData,
      quantityMatches |-> (targetQuantity = shopifyQuantity),
      priceMatches |-> IF hasPriceData
                       THEN PriceWithinTolerance(shopifyPrice, targetPrice) ELSE TRUE]

\* sequential route: `let targetQuantity;` stays undefined past position 1, and
\* undefined === shopifyQuantity is false; targetPrice starts at 0
evalVariant_seq(fina, variant, vIndex) ==
  LET shopifyQuantity == variant.inventoryQuantity
      shopifyPrice == variant.price
      isB2C == (vIndex = 0)
      isB2B == (vIndex = 1)
      defined == isB2C \/ isB2B
      targetQuantity ==
        IF isB2C THEN (IF fina.isB2CVisible THEN fina.finaQuantity ELSE 0)
        ELSE IF isB2B THEN (IF fina.isB2BVisible THEN fina.finaQuantity ELSE 0)
        ELSE 0
      targetPrice ==
        IF isB2C THEN fina.finaB2cPrice
        ELSE IF isB2B THEN fina.finaB2bPrice
        ELSE 0
      hasPriceData == isB2C \/ isB2B
  IN [targetQuantity |-> targetQuantity,
      quantityDefined |-> defined,
      targetPrice |-> targetPrice,
      hasPriceData |-> hasPriceData,
      quantityMatches |-> (defined /\ targetQuantity = shopifyQuantity),
      priceMatches |-> IF hasPriceData
                       THEN PriceWithinTolerance(shopifyPrice, targetPrice) ELSE TRUE]

\* ------------------------------------------------------------------ storefront
\* The storefront holds variants: shop[id] = [sku, productId, inventoryQuantity,
\* price]; the inventory item of variant id has the same id.  It has one
\* location.
LOOKUP_FIRST == 250
ShopLocation == "loc-1"

RECURSIVE SortedSeq(_)
SortedSeq(S) ==
  IF S = {} THEN <<>>
  ELSE LET m == CHOOSE x \in S : \A y \in S : x <= y
       IN <<m>> \o SortedSeq(S \ {m})

\* The storefront's search on the sku field is a token search: besides the
\* variants whose sku is the term it can return neighbouring skus.
SearchMatches(term, sku) ==
  \/ sku = term
  \/ (term # "" /\ sku = term \o "-1")

variantNode(shopState, id) ==
  [id |-> id,
   sku |-> shopState[id].sku,
   price |-> shopState[id].price,
   inventoryQuantity |-> shopState[id].inventoryQuantity,
   inventoryItemId |-> id,
   productId |-> shopState[id].productId]

\* productVariants(first: 250, query: ...) for a query that ORs the terms
productVariantsQuery(shopState, terms) ==
  LET hits == {id \in DOMAIN shopState :
                 \E k \in DOMAIN terms : SearchMatches(terms[k], shopState[id].sku)}
      ids == SortedSeq(hits)
  IN [k \in 1..Min(Len(ids), LOOKUP_FIRST) |-> variantNode(shopState, ids[k])]

\* getShopifyVariantsBySkusBatch: the edges of one answer grouped by node.sku
\* (nodes without sku are skipped); Map<sku, Variant[]> as a function
groupBySku(nodes) ==
  [sku \in {nodes[k].sku : k \in DOMAIN nodes} \ {""} |->
     SelectSeq(nodes, LAMBDA n : n.sku = sku)]

MergeMap(m1, m2) ==
  [k \in DOMAIN m1 \cup DOMAIN m2 |-> IF k \in DOMAIN m2 THEN m2[k] ELSE m1[k]]

\* A faulty batching for sensitivity runs of C22: a batch reaches one product
\* into the next batch.
batchSkus_overlapping(products, b) ==
  LET part == Slice(products, (b - 1) * BATCH_SIZE, b * BATCH_SIZE + 1)
      codes == [k \in DOMAIN part |-> part[k].code]
  IN SelectSeq(codes, LAMBDA c : c # "")
\* products.slice(i, i + batchSize).map(p => p.code).filter(Boolean)
batchSkus(products, b) ==
  LET part == Slice(products, (b - 1) * BATCH_SIZE, b * BATCH_SIZE)
      codes == [k \in DOMAIN part |-> part[k].code]
  IN SelectSeq(codes, LAMBDA c : c # "")

\* preloadChunkVariants from batch b on.  outcomes[b] is what the storefront
\* answers to the query of batch b: "ok", "errors" (an errors payload without
\* data: no edges) or "throw".  A batch without skus sends no query.
\* Gives [threw, map, queries]: queries are the sku lists sent.
RECURSIVE preloadFrom(_, _, _, _, _)
preloadFrom(shopState, products, outcomes, b, acc) ==
  IF (b - 1) * BATCH_SIZE >= Len(products) THEN acc
  ELSE LET part == batchSkus(products, b) IN
       IF part = <<>>
       THEN preloadFrom(shopState, products, outcomes, b + 1, acc)
       ELSE LET sent == [acc EXCEPT !.queries = Append(@, part)] IN
            IF outcomes[b] = "throw" THEN [sent EXCEPT !.threw = TRUE]
            ELSE LET nodes == IF outcomes[b] = "ok"
                              THEN productVariantsQuery(shopState, part) ELSE <<>>
                 IN preloadFrom(shopState, products, outcomes, b + 1,
                      [sent EXCEPT !.map = MergeMap(@, groupBySku(nodes))])

preloadChunkVariants(shopState, products, outcomes) ==
  preloadFrom(shopState, products, outcomes, 1,
              [threw |-> FALSE, map |-> <<>>, queries |-> <<>>])

\* A faulty map read for sensitivity runs of C29: a product whose sku is not in
\* the map takes the variants of the nearest sku of the answer.
variantsOf_nearest(map, code) ==
  IF code \in DOMAIN map THEN map[code]
  ELSE IF code # "" /\ (code \o "-1") \in DOMAIN map THEN map[code \o "-1"]
  ELSE <<>>
\* variantsBySku.get(product.code) || []
variantsOf(map, code) == IF code \in DOMAIN map THEN map[code] ELSE <<>>

\* What a write can come back as: applied ("ok"), a userErrors list, a top-level
\* errors payload without data, or a thrown exception.
WriteOutcomes == {"ok", "userErrors", "errors", "throw"}

\* inventorySetQuantities applied by the storefront
applyInventorySet(shopState, inventoryItemId, quantity) ==
  [shopState EXCEPT ![inventoryItemId].inventoryQuantity = quantity]

\* productVariantsBulkUpdate applied by the storefront
applyPricesBulk(shopState, variantsPayload) ==
  [id \in DOMAIN shopState |->
     IF \E k \in DOMAIN variantsPayload : variantsPayload[k].id = id
     THEN [shopState[id] EXCEPT !.price =
             variantsPayload[CHOOSE k \in DOMAIN variantsPayload :
                               variantsPayload[k].id = id].price]
     ELSE shopState[id]]

\* the storefront applies a bulk price write only to variants of the product named
bulkPayloadBelongs(shopState, productId, variantsPayload) ==
  \A k \in DOMAIN variantsPayload : shopState[variantsPayload[k].id].productId = productId

\* ------------------------------------------------------------------- state
VARIABLES
  catalog,          \* ERP: getProducts, the products in catalog order
  store_rest,       \* ERP: getProductsRestByStore/1, the quantity items
  prices,           \* ERP: getProductPrices, the price items
  shop,             \* storefront: the variants, with their quantity and price
  locationIdCache,  \* api.sync.jsx: module-level _locationIdCache
  inv,              \* invocations of the action so far
  pc,               \* where the running invocation is: "idle" when none runs
  req,              \* the running invocation: route, parsed offset and limit, raw fields
  internalIndex,    \* index of the internal chunk in progress
  chunkResults,     \* results of the internal chunks done so far
  variantsBySku,    \* api.sync.jsx: the preloaded Map<sku, Variant[]>
  locationId,       \* api.sync.jsx: the location id of this internal chunk
  next,             \* withConcurrency: the shared cursor
  runners,          \* withConcurrency: what each runner is awaiting
  results,          \* withConcurrency: the results array
  calls,            \* remote calls of the running invocation, by kind
  response,         \* the JSON answer of the last invocation
  prev,             \* the invocation before the running one: request, answer, records
  probe,            \* the delta calculator applied to one variant alone
  orderTags,        \* storefront: the tags of the order the webhook is about
  finaOrders,       \* ERP: documents saved by saveDocProductOut for the order
  finaCustomer,     \* ERP: whether getCustomersByCode knows the business number
  orderCustomer,    \* the customer of the order, by the branch it takes
  deliveries,       \* the deliveries of the order webhook, each where it stands
  page              \* app._index.jsx: the sync page of the admin UI

vars == <<catalog, store_rest, prices, shop, locationIdCache, inv, pc, req,
          internalIndex, chunkResults, variantsBySku, locationId, next,
          runners, results, calls, response, prev, probe, orderTags,
          finaOrders, finaCustomer, orderCustomer, deliveries, page>>

webhook == <<orderTags, finaOrders, finaCustomer, orderCustomer, deliveries>>
world == <<catalog, store_rest, prices, probe, webhook, page>>
pool == <<next, runners, results>>

\* -------------------------------------------------------- derived values
\* the maps the action builds from the two ERP answers
quantityMap == buildQuantityMap(store_rest)
b2cPriceMap == buildPriceMap(prices, B2C_PRICE_ID)
b2bPriceMap == buildPriceMap(prices, B2B_PRICE_ID)

totalProducts == Len(catalog)
chunkProducts_inclusive == Slice(catalog, req.offset, req.offset + req.limit + 1)
chunkProducts == Slice(catalog, req.offset, req.offset + req.limit)
actualChunkSize == Len(chunkProducts)
internalChunks == CeilDiv(actualChunkSize, INTERNAL_CHUNK_SIZE)

\* chunkProducts.slice(startIdx, endIdx) of internal chunk idx
internalChunk(idx) ==
  Slice(chunkProducts, idx * INTERNAL_CHUNK_SIZE,
        Min(idx * INTERNAL_CHUNK_SIZE + INTERNAL_CHUNK_SIZE, actualChunkSize))

\* position in the catalog (from 1) of item i of the internal chunk in progress
catalogIndex(i) == req.offset + internalIndex * INTERNAL_CHUNK_SIZE + i

\* counts of the remote calls by kind, the sku lists of the lookups, how the ERP
\* answered the snapshot load, and how many lookups came back without data
NoCalls == [auth |-> 0, products |-> 0, quantities |-> 0, prices |-> 0,
            locations |-> 0, lookups |-> <<>>, inventorySets |-> 0,
            priceBulks |-> 0, load |-> "none", lookupErrors |-> 0]

\* A JSON answer.  `fields` are the keys the answer carries; a key it does not
\* carry holds a filler here.  nextOffset is <<>> for null and <<n>> for n.
NoResponse ==
  [kind |-> "none", httpStatus |-> 0, fields |-> {}, success |-> FALSE,
   isComplete |-> FALSE, nextOffset |-> <<>>, totalProducts |-> 0,
   processedProducts |-> 0, currentChunk |-> 0, totalChunks |-> 0,
   successful |-> 0, noChange |-> 0, errors |-> 0, notFound |-> 0,
   processed |-> 0, results |-> <<>>]

\* A result record; `applied` (not a field of the record) keeps whether every write
\* call made for the product was applied by the storefront.
NoResult == [sku |-> "", status |-> "pending", finaQuantity |-> 0,
             finaB2cPrice |-> 0, finaB2bPrice |-> 0, applied |-> TRUE]

resultOf(product, fina, status) ==
  [sku |-> product.code, status |-> status, finaQuantity |-> fina.finaQuantity,
   finaB2cPrice |-> fina.finaB2cPrice, finaB2bPrice |-> fina.finaB2bPrice,
   applied |-> TRUE]

\* ------------------------------------------------ the worker of api.sync.jsx
\* What a runner holds while it awaits: the item, the variant position, the
\* counters of the worker and the call it awaits ("qty", "price", or "result"
\* once the worker has returned and the runner is about to store its result),
\* the write calls the worker has made for the item, each with its answer, and
\* whether the variant lookup of the item was answered.
NoTask == [item |-> 0, vIndex |-> 0, pending |-> "done", variantUpdated |-> 0,
           variantNoChange |-> 0, variantErrors |-> 0,
           allVariantQuantitiesMatch |-> TRUE, allVariantPricesMatch |-> TRUE,
           priceUpdates |-> <<>>, status |-> "", variants |-> <<>>,
           quantityUpdateSuccess |-> TRUE, writes |-> <<>>,
           lookedUp |-> FALSE]

\* A faulty summary for sensitivity runs of C27: a product with writes that went
\* through and writes that failed gets a fifth status.
productStatus_partial(t) ==
  IF t.allVariantQuantitiesMatch /\ t.allVariantPricesMatch THEN "no_change"
  ELSE IF t.variantErrors = 0 THEN "updated"
  ELSE IF t.variantUpdated > 0 THEN "partial"
  ELSE "error"
\* the summary at the end of the worker
productStatus(t) ==
  IF t.allVariantQuantitiesMatch /\ t.allVariantPricesMatch THEN "no_change"
  ELSE IF t.variantErrors = 0 THEN "updated"
  ELSE "error"

\* A faulty end of the variant loop for sensitivity runs of C7: the collected
\* price updates are never sent.
afterVariantLoop_noFlush(t) ==
  [t EXCEPT !.pending = "result", !.status = productStatus(t)]

\* after the variant loop: one bulk price write if any price is pending
afterVariantLoop(t) ==
  IF t.priceUpdates # <<>> THEN [t EXCEPT !.pending = "price"]
  ELSE [t EXCEPT !.pending = "result", !.status = productStatus(t)]

\* A faulty price collector for sensitivity runs of C2: a target price of 0 is
\* skipped instead of written.
pushPriceUpdate_skipsZero(t, variant, ev) ==
  IF ~ev.priceMatches /\ ev.hasPriceData /\ ev.targetPrice > 0
  THEN [t EXCEPT !.priceUpdates =
          Append(@, [id |-> variant.id, price |-> toFixed2(ev.targetPrice)])]
  ELSE t

\* priceUpdates.push({ id, price: targetPrice.toFixed(2) }) when the price differs
pushPriceUpdate(t, variant, ev) ==
  IF ~ev.priceMatches /\ ev.hasPriceData
  THEN [t EXCEPT !.priceUpdates =
          Append(@, [id |-> variant.id, price |-> toFixed2(ev.targetPrice)])]
  ELSE t

\* the variant loop from position t.vIndex up to the next awaited quantity write
RECURSIVE variantLoop(_, _)

\* A faulty variant loop for sensitivity runs of C8: the loop is left at the first
\* failed write.
variantLoop_stopsAtError(fina, t) ==
  IF t.vIndex >= Len(t.variants) \/ t.variantErrors > 0 THEN afterVariantLoop(t)
  ELSE LET variant == t.variants[t.vIndex + 1]
           ev == evalVariant(fina, variant, t.vIndex)
           t1 == [t EXCEPT
                    !.allVariantQuantitiesMatch = @ /\ ev.quantityMatches,
                    !.allVariantPricesMatch = @ /\ ev.priceMatches]
       IN IF ev.quantityMatches /\ ev.priceMatches
          THEN variantLoop(fina, [t1 EXCEPT !.variantNoChange = @ + 1,
                                            !.vIndex = @ + 1])
          ELSE IF ~ev.quantityMatches
          THEN [t1 EXCEPT !.pending = "qty"]
          ELSE variantLoop(fina, [pushPriceUpdate(t1, variant, ev)
                                    EXCEPT !.vIndex = @ + 1])

\* A faulty variant loop for sensitivity runs of C18: a price that differs is
\* written at once, before the remaining variants are evaluated.
variantLoop_flushesEarly(fina, t) ==
  IF t.vIndex >= Len(t.variants) THEN afterVariantLoop(t)
  ELSE LET variant == t.variants[t.vIndex + 1]
           ev == evalVariant(fina, variant, t.vIndex)
           t1 == [t EXCEPT
                    !.allVariantQuantitiesMatch = @ /\ ev.quantityMatches,
                    !.allVariantPricesMatch = @ /\ ev.priceMatches]
       IN IF ev.quantityMatches /\ ev.priceMatches
          THEN variantLoop(fina, [t1 EXCEPT !.variantNoChange = @ + 1,
                                            !.vIndex = @ + 1])
          ELSE IF ~ev.quantityMatches
          THEN [t1 EXCEPT !.pending = "qty"]
          ELSE [pushPriceUpdate(t1, variant, ev) EXCEPT !.pending = "price"]

\* A faulty variant loop for sensitivity runs of C23: a quantity write that threw
\* is sent again (twice at most).
variantLoop_retries(fina, t) ==
  IF /\ t.writes # <<>>
     /\ Len(t.writes) < 3
     /\ t.writes[Len(t.writes)].kind = "inventorySet"
     /\ t.writes[Len(t.writes)].outcome = "throw"
     /\ t.writes[Len(t.writes)].position = t.vIndex - 1
  THEN [t EXCEPT !.vIndex = @ - 1, !.pending = "qty"]
  ELSE IF t.vIndex >= Len(t.variants) THEN afterVariantLoop(t)
  ELSE LET variant == t.variants[t.vIndex + 1]
           ev == evalVariant(fina, variant, t.vIndex)
           t1 == [t EXCEPT
                    !.allVariantQuantitiesMatch = @ /\ ev.quantityMatches,
                    !.allVariantPricesMatch = @ /\ ev.priceMatches]
       IN IF ev.quantityMatches /\ ev.priceMatches
          THEN variantLoop(fina, [t1 EXCEPT !.variantNoChange = @ + 1,
                                            !.vIndex = @ + 1])
          ELSE IF ~ev.quantityMatches
          THEN [t1 EXCEPT !.pending = "qty"]
          ELSE variantLoop(fina, [pushPriceUpdate(t1, variant, ev)
                                    EXCEPT !.vIndex = @ + 1])
variantLoop(fina, t) ==
  IF t.vIndex >= Len(t.variants) THEN afterVariantLoop(t)
  ELSE LET variant == t.variants[t.vIndex + 1]
           ev == evalVariant(fina, variant, t.vIndex)
           t1 == [t EXCEPT
                    !.allVariantQuantitiesMatch = @ /\ ev.quantityMatches,
                    !.allVariantPricesMatch = @ /\ ev.priceMatches]
       IN IF ev.quantityMatches /\ ev.priceMatches
          THEN variantLoop(fina, [t1 EXCEPT !.variantNoChange = @ + 1,
                                            !.vIndex = @ + 1])
          ELSE IF ~ev.quantityMatches
          THEN [t1 EXCEPT !.pending = "qty"]
          ELSE variantLoop(fina, [pushPriceUpdate(t1, variant, ev)
                                    EXCEPT !.vIndex = @ + 1])

\* A faulty worker for sensitivity runs of C5: without the early return a product
\* without variants runs through an empty variant loop.
worker_noEarlyReturn(product, item, map) ==
  variantLoop(finaValues(product, quantityMap, b2cPriceMap, b2bPriceMap),
              [NoTask EXCEPT !.item = item, !.pending = "none",
                             !.variants = variantsOf(map, product.code),
                             !.lookedUp = TRUE])

\* the worker from its start to its first await (or its return)
worker(product, item, map) ==
  LET fina == finaValues(product, quantityMap, b2cPriceMap, b2bPriceMap)
      shopifyVariants == variantsOf(map, product.code)
  IN IF Len(shopifyVariants) = 0
     THEN [NoTask EXCEPT !.item = item, !.pending = "result",
                         !.status = "not_found", !.lookedUp = TRUE]
     ELSE variantLoop(fina, [NoTask EXCEPT !.item = item, !.pending = "none",
                                           !.variants = shopifyVariants,
                                           !.lookedUp = TRUE])

\* ------------------------------------------------------------- the answers
invalidResponse(route) ==
  [NoResponse EXCEPT
     !.kind = "invalid", !.httpStatus = 200,
     !.fields = {"success", "isComplete", "error"}
                  \cup (IF route = "seq" THEN {"details"} ELSE {}),
     !.success = FALSE, !.isComplete = TRUE]

\* A faulty catch for sensitivity runs of C9: the failed chunk is offered again.
fatalResponse_retry ==
  [NoResponse EXCEPT
     !.kind = "fatal", !.httpStatus = 500,
     !.fields = {"success", "isComplete", "error", "details", "message",
                 "processingTime", "nextOffset"},
     !.success = FALSE, !.isComplete = FALSE, !.nextOffset = <<req.offset>>]

\* the catch of the action
fatalResponse ==
  [NoResponse EXCEPT
     !.kind = "fatal", !.httpStatus = 500,
     !.fields = {"success", "isComplete", "error", "details", "message",
                 "processingTime", "nextOffset"},
     !.success = FALSE, !.isComplete = TRUE, !.nextOffset = <<>>]

\* api.sync.jsx: `if (totalProducts === 0)`
emptyCatalogResponse ==
  [NoResponse EXCEPT
     !.kind = "empty", !.httpStatus = 200,
     !.fields = {"success", "isComplete", "message", "totalProducts"},
     !.success = TRUE, !.isComplete = TRUE, !.totalProducts = 0]

CounterFields == {"successful", "noChange", "errors", "notFound"}

\* sequential route: `if (allFinaProducts.length === 0)`
emptyCatalogResponse_seq ==
  [NoResponse EXCEPT
     !.kind = "empty", !.httpStatus = 200,
     !.fields = {"success", "isComplete", "message", "totalProducts",
                 "processedProducts", "currentChunk", "totalChunks",
                 "processingTime"} \cup CounterFields,
     !.success = TRUE, !.isComplete = TRUE, !.totalProducts = 0,
     !.processedProducts = 0, !.currentChunk = 1, !.totalChunks = 1]

\* sequential route: `if (chunkProducts.length === 0)`
emptyRangeResponse_seq ==
  [NoResponse EXCEPT
     !.kind = "emptyRange", !.httpStatus = 200,
     !.fields = {"success", "isComplete", "message", "totalProducts",
                 "processedProducts", "currentChunk", "totalChunks",
                 "processingTime"} \cup CounterFields,
     !.success = TRUE, !.isComplete = TRUE, !.totalProducts = totalProducts,
     !.processedProducts = req.offset,
     !.currentChunk = (req.offset \div req.limit) + 1,
     !.totalChunks = CeilDiv(totalProducts, req.limit)]

countStatus(rs, status) == Cardinality({k \in DOMAIN rs : rs[k].status = status})

successResponse_byChunkIndex(rs) ==
  LET currentChunk == (req.offset \div req.limit) + 1
      totalChunks == CeilDiv(totalProducts, req.limit)
      isComplete == currentChunk >= totalChunks
  IN [NoResponse EXCEPT
        !.kind = "ok", !.httpStatus = 200,
        !.fields = {"success", "isComplete", "message", "totalProducts",
                    "processedProducts", "currentChunk", "totalChunks",
                    "processed", "nextOffset", "processingTime", "results"}
                     \cup CounterFields,
        !.success = TRUE, !.isComplete = isComplete,
        !.totalProducts = totalProducts,
        !.processedProducts = req.offset + actualChunkSize,
        !.currentChunk = currentChunk,
        !.totalChunks = totalChunks,
        !.successful = countStatus(rs, "updated"),
        !.noChange = countStatus(rs, "no_change"),
        !.errors = countStatus(rs, "error"),
        !.notFound = countStatus(rs, "not_found"),
        !.processed = actualChunkSize,
        !.nextOffset = IF isComplete THEN <<>> ELSE <<req.offset + req.limit>>,
        !.results = SubSeq(rs, 1, Min(Len(rs), RESULTS_CAP))]
\* the answer at the end of the action (the same lines in both routes)
successResponse(rs) ==
  LET processedProducts == req.offset + actualChunkSize
      isLastChunk == (req.offset + req.limit) >= totalProducts
      isComplete == isLastChunk \/ processedProducts >= totalProducts
  IN [NoResponse EXCEPT
        !.kind = "ok", !.httpStatus = 200,
        !.fields = {"success", "isComplete", "message", "totalProducts",
                    "processedProducts", "currentChunk", "totalChunks",
                    "processed", "nextOffset", "processingTime", "results"}
                     \cup CounterFields,
        !.success = TRUE, !.isComplete = isComplete,
        !.totalProducts = totalProducts,
        !.processedProducts = processedProducts,
        !.currentChunk = (req.offset \div req.limit) + 1,
        !.totalChunks = CeilDiv(totalProducts, req.limit),
        !.successful = countStatus(rs, "updated"),
        !.noChange = countStatus(rs, "no_change"),
        !.errors = countStatus(rs, "error"),
        !.notFound = countStatus(rs, "not_found"),
        !.processed = actualChunkSize,
        !.nextOffset = IF isComplete THEN <<>> ELSE <<req.offset + req.limit>>,
        !.results = SubSeq(rs, 1, Min(Len(rs), RESULTS_CAP))]

\* ------------------------------------------------------------------ inputs
RawOffsets ==
  {[kind |-> "absent", n |-> 0], [kind |-> "text", n |-> 0]}
    \cup {[kind |-> "num", n |-> k] : k \in -1..MaxOffset}
RawLimits ==
  {[kind |-> "absent", n |-> 0], [kind |-> "text", n |-> 0]}
    \cup {[kind |-> "num", n |-> k] : k \in -1..MaxLimit}
Routes == {"par", "seq"}

NoReq == [route |-> "par", offset |-> 0, limit |-> 1,
          rawOffset |-> [kind |-> "absent", n |-> 0],
          rawLimit |-> [kind |-> "absent", n |-> 0]]

\* --------------------------------------------------------------- the action
\* The action up to its first remote call: the form fields are parsed and
\* checked; an invalid field is answered at once.
\* withConcurrency starts Math.min(limit, items.length) runners; an internal chunk
\* has at most INTERNAL_CHUNK_SIZE items, and the runners that are not started
\* hold no task
poolSize_perItem(limit, n) == n

poolSize(limit, n) == Min(limit, n)
Runners == 1..INTERNAL_CHUNK_SIZE

\* what is kept of an invocation once the next one has begun: where its slice
\* began, how it was answered and how many records it processed
trailEntry ==
  [offset |-> req.offset, kind |-> response.kind, processed |-> Len(chunkResults)]

Invoke(route, rawOffset, rawLimit) ==
  /\ pc = "idle"
  /\ inv < MaxInvocations
  /\ inv' = inv + 1
  /\ prev' = [route |-> req.route, offset |-> req.offset, limit |-> req.limit,
              kind |-> response.kind, records |-> chunkResults,
              trail |-> IF inv = 0 THEN <<>>
                        ELSE Append(prev.trail, trailEntry)]
  /\ calls' = NoCalls
  /\ chunkResults' = <<>>
  /\ internalIndex' = 0
  /\ variantsBySku' = <<>>
  /\ locationId' = Null
  /\ next' = 0
  /\ runners' = [r \in Runners |-> NoTask]
  /\ results' = <<>>
  /\ LET offset == parseIntField(rawOffset, 0)
         limit == parseIntField(rawLimit, DEFAULT_LIMIT)
     IN IF offset.isNaN \/ offset.n < 0 \/ limit.isNaN \/ limit.n <= 0
        THEN /\ response' = invalidResponse(route)
             /\ req' = [NoReq EXCEPT !.route = route, !.rawOffset = rawOffset,
                                     !.rawLimit = rawLimit]
             /\ pc' = "idle"
        ELSE /\ response' = NoResponse
             /\ req' = [route |-> route, offset |-> offset.n, limit |-> limit.n,
                         rawOffset |-> rawOffset, rawLimit |-> rawLimit]
             /\ pc' = "load"
  /\ UNCHANGED <<world, shop, locationIdCache>>

\* What the ERP answers: the token request fails, or one of the three fetches
\* comes back with a non-success status, or all succeed.
LoadOutcomes == {"authFail", "productsFail", "quantitiesFail", "pricesFail", "ok"}

\* refreshFinaToken, getAllFinaProducts, getFinaProductQuantities and
\* getFinaProductPrices, with the early answers between them.
LoadSnapshot(o) ==
  /\ pc = "load"
  /\ LET early == \/ totalProducts = 0
                  \/ (req.route = "seq" /\ actualChunkSize = 0)
         done == [NoCalls EXCEPT
                    !.load = o,
                    !.auth = 1,
                    !.products = IF o = "authFail" THEN 0 ELSE 1,
                    !.quantities =
                      IF o \in {"authFail", "productsFail"} \/ early THEN 0 ELSE 1,
                    !.prices =
                      IF o \in {"authFail", "productsFail", "quantitiesFail"} \/ early
                      THEN 0 ELSE 1]
     IN /\ (early => o \in {"authFail", "productsFail", "ok"})
        /\ calls' = done
        /\ IF o # "ok"
           THEN /\ response' = fatalResponse
                /\ pc' = "idle"
           ELSE IF totalProducts = 0
           THEN /\ response' = IF req.route = "par" THEN emptyCatalogResponse
                               ELSE emptyCatalogResponse_seq
                /\ pc' = "idle"
           ELSE IF req.route = "seq" /\ actualChunkSize = 0
           THEN /\ response' = emptyRangeResponse_seq
                /\ pc' = "idle"
           ELSE IF internalChunks = 0
           THEN /\ response' = successResponse(<<>>)
                /\ pc' = "idle"
           ELSE /\ response' = response
                /\ pc' = "chunk"
  /\ UNCHANGED <<world, shop, locationIdCache, inv, req, internalIndex,
                 chunkResults, variantsBySku, locationId, pool, prev>>

\* A faulty location helper for sensitivity runs of C20: the cache is not read.
locationAsked_always(cache, threw) == ~threw

\* getPrimaryLocationId is reached when the preload did not throw, and queries
\* the storefront unless _locationIdCache is set
locationAsked(cache, threw) == ~threw /\ cache = Null

LookupOutcomes == {"ok", "errors", "throw"}
LocationOutcomes == {"ok", "none", "throw"}

\* api.sync.jsx, processProductChunk up to the first await of the pool:
\* preloadChunkVariants, getPrimaryLocationId, and withConcurrency starting its
\* runners, each taking the next item and running its worker to its first await.
StartChunk(outcomes, locOutcome) ==
  /\ pc = "chunk"
  /\ req.route = "par"
  /\ LET products == internalChunk(internalIndex)
         n == Len(products)
         pre == preloadChunkVariants(shop, products, outcomes)
         cached == locationIdCache # Null
         asked == locationAsked(locationIdCache, pre.threw)
         id == IF cached THEN locationIdCache ELSE ShopLocation
         now == [calls EXCEPT !.lookups = @ \o pre.queries,
                              !.lookupErrors = @ + Cardinality(
                                {b \in DOMAIN outcomes : outcomes[b] = "errors"}),
                              !.locations = @ + (IF asked THEN 1 ELSE 0)]
     IN /\ \A b \in DOMAIN outcomes :      \* a query that is not sent has no answer
             (\/ batchSkus(products, b) = <<>>
              \/ \E a \in 1..(b - 1) :
                   outcomes[a] = "throw" /\ batchSkus(products, a) # <<>>)
               => outcomes[b] = "ok"
        /\ (~asked => locOutcome = "ok")
        /\ calls' = now
        /\ IF pre.threw \/ locOutcome # "ok"
           THEN /\ response' = fatalResponse
                /\ pc' = "idle"
                /\ variantsBySku' = <<>>
                /\ locationId' = Null
                /\ next' = 0
                /\ results' = <<>>
                /\ UNCHANGED <<locationIdCache, runners>>
           ELSE /\ locationIdCache' = id
                /\ locationId' = id
                /\ variantsBySku' = pre.map
                /\ results' = [k \in 1..n |-> NoResult]
                /\ next' = poolSize(CONCURRENCY, n)
                /\ runners' = [r \in Runners |->
                                 IF r <= poolSize(CONCURRENCY, n)
                                 THEN worker(products[r], r, pre.map)
                                 ELSE NoTask]
                /\ response' = response
                /\ pc' = "pool"
  /\ UNCHANGED <<world, shop, inv, req, internalIndex, chunkResults, prev>>

\* the fina values of the item a task is about
taskProduct(t) == internalChunk(internalIndex)[t.item]
taskFina(t) == finaValues(taskProduct(t), quantityMap, b2cPriceMap, b2bPriceMap)

\* api.sync.jsx: updateShopifyInventory has answered runner r
QuantityWriteReturns(r, o) ==
  /\ pc = "pool"
  /\ req.route = "par"
  /\ runners[r].pending = "qty"
  /\ LET t == runners[r]
         fina == taskFina(t)
         variant == t.variants[t.vIndex + 1]
         ev == evalVariant(fina, variant, t.vIndex)
         failed == o \in {"userErrors", "throw"}
         w == [kind |-> "inventorySet", position |-> t.vIndex,
               inventoryItemId |-> variant.inventoryItemId,
               quantity |-> ev.targetQuantity, quantityDefined |-> TRUE,
               locationId |-> locationId, productId |-> variant.productId,
               variants |-> <<>>, outcome |-> o]
         t1 == [t EXCEPT !.variantErrors = @ + (IF failed THEN 1 ELSE 0),
                         !.variantUpdated = @ + (IF failed THEN 0 ELSE 1),
                         !.writes = Append(@, w)]
         t2 == pushPriceUpdate(t1, variant, ev)
     IN /\ runners' = [runners EXCEPT ![r] =
                         variantLoop(fina, [t2 EXCEPT !.vIndex = @ + 1,
                                                      !.pending = "none"])]
        /\ shop' = IF o = "ok"
                   THEN applyInventorySet(shop, variant.inventoryItemId,
                                          ev.targetQuantity)
                   ELSE shop
        /\ calls' = [calls EXCEPT !.inventorySets = @ + 1]
  /\ UNCHANGED <<world, locationIdCache, inv, pc, req, internalIndex,
                 chunkResults, variantsBySku, locationId, next, results,
                 response, prev>>

\* api.sync.jsx: updateProductVariantPricesBulk has answered runner r
PriceBulkReturns(r, o) ==
  /\ pc = "pool"
  /\ req.route = "par"
  /\ runners[r].pending = "price"
  /\ LET t == runners[r]
         productId == t.variants[1].productId
         failed == o \in {"userErrors", "errors", "throw"}
         w == [kind |-> "priceBulk", position |-> Len(t.variants),
               inventoryItemId |-> 0, quantity |-> 0, quantityDefined |-> TRUE,
               locationId |-> Null, productId |-> productId,
               variants |-> t.priceUpdates, outcome |-> o]
         t1 == [t EXCEPT
                  !.variantErrors = @ + (IF failed THEN 1 ELSE 0),
                  !.variantUpdated = @ + (IF failed THEN 0 ELSE Len(t.priceUpdates)),
                  !.writes = Append(@, w)]
     IN /\ (o = "ok" => bulkPayloadBelongs(shop, productId, t.priceUpdates))
        /\ runners' = [runners EXCEPT ![r] =
                         [t1 EXCEPT !.pending = "result",
                                    !.status = productStatus(t1)]]
        /\ shop' = IF o = "ok" THEN applyPricesBulk(shop, t.priceUpdates) ELSE shop
        /\ calls' = [calls EXCEPT !.priceBulks = @ + 1]
  /\ UNCHANGED <<world, locationIdCache, inv, pc, req, internalIndex,
                 chunkResults, variantsBySku, locationId, next, results,
                 response, prev>>

\* ------------------------------------------- the sequential route (part_003)
seqFina(t) == finaValues_seq(taskProduct(t), quantityMap, b2cPriceMap, b2bPriceMap)

\* the variant loop of the sequential route from position t.vIndex up to the
\* next awaited write: the quantity write if the quantity differs, else the
\* price write
RECURSIVE variantLoop_seq(_, _)
variantLoop_seq(fina, t) ==
  IF t.vIndex >= Len(t.variants)
  THEN [t EXCEPT !.pending = "result", !.status = productStatus(t)]
  ELSE LET variant == t.variants[t.vIndex + 1]
           ev == evalVariant_seq(fina, variant, t.vIndex)
           t1 == [t EXCEPT
                    !.allVariantQuantitiesMatch = @ /\ ev.quantityMatches,
                    !.allVariantPricesMatch = @ /\ ev.priceMatches]
       IN IF ev.quantityMatches /\ ev.priceMatches
          THEN variantLoop_seq(fina, [t1 EXCEPT !.variantNoChange = @ + 1,
                                                !.vIndex = @ + 1])
          ELSE [t1 EXCEPT !.quantityUpdateSuccess = TRUE,
                          !.pending = IF ~ev.quantityMatches THEN "qty" ELSE "price"]

\* `if (quantityUpdateSuccess && priceUpdateSuccess) variantUpdated++ else variantErrors++`
countVariant_seq(t, success) ==
  [t EXCEPT !.variantUpdated = @ + (IF success THEN 1 ELSE 0),
            !.variantErrors = @ + (IF success THEN 0 ELSE 1)]

\* sequential route: processProductChunk starts on the first product
StartChunkSeq ==
  /\ pc = "chunk"
  /\ req.route = "seq"
  /\ results' = [k \in 1..Len(internalChunk(internalIndex)) |-> NoResult]
  /\ next' = 1
  /\ runners' = [r \in Runners |->
                   IF r = 1 THEN [NoTask EXCEPT !.item = 1, !.pending = "lookup"]
                   ELSE NoTask]
  /\ pc' = "pool"
  /\ UNCHANGED <<world, shop, locationIdCache, inv, req, internalIndex,
                 chunkResults, variantsBySku, locationId, calls, response, prev>>

\* sequential route: getShopifyVariantsBySku has answered
SeqLookupReturns(o) ==
  /\ pc = "pool"
  /\ req.route = "seq"
  /\ runners[1].pending = "lookup"
  /\ LET t == runners[1]
         product == taskProduct(t)
         shopifyVariants == IF o = "ok"
                            THEN productVariantsQuery(shop, <<product.code>>)
                            ELSE <<>>
     IN /\ runners' = [runners EXCEPT ![1] =
             IF o = "throw"
             THEN [t EXCEPT !.pending = "result", !.status = "error"]
             ELSE IF Len(shopifyVariants) = 0
             THEN [t EXCEPT !.pending = "result", !.status = "not_found",
                            !.lookedUp = TRUE]
             ELSE variantLoop_seq(seqFina(t),
                    [t EXCEPT !.pending = "none", !.variants = shopifyVariants,
                              !.lookedUp = TRUE])]
        /\ calls' = [calls EXCEPT !.lookups = Append(@, <<product.code>>),
                                  !.lookupErrors = @ + (IF o = "errors" THEN 1 ELSE 0)]
  /\ UNCHANGED <<world, shop, locationIdCache, inv, pc, req, internalIndex,
                 chunkResults, variantsBySku, locationId, next, results,
                 response, prev>>

\* What updateShopifyInventory of the sequential route can come back as: a write
\* outcome, or no location in the answer to its location query ("noLocation",
\* thrown before the write is sent).
SeqInventoryOutcomes == WriteOutcomes \cup {"noLocation"}

\* sequential route: updateShopifyInventory (location query, then the write)
\* has answered
SeqInventoryReturns(o) ==
  /\ pc = "pool"
  /\ req.route = "seq"
  /\ runners[1].pending = "qty"
  /\ LET t == runners[1]
         fina == seqFina(t)
         variant == t.variants[t.vIndex + 1]
         ev == evalVariant_seq(fina, variant, t.vIndex)
         sent == (o # "noLocation")
         thrown == o \in {"throw", "noLocation"}
         w == [kind |-> "inventorySet", position |-> t.vIndex,
               inventoryItemId |-> variant.inventoryItemId,
               quantity |-> ev.targetQuantity,
               quantityDefined |-> ev.quantityDefined,
               locationId |-> ShopLocation, productId |-> variant.productId,
               variants |-> <<>>, outcome |-> o]
         t1 == [t EXCEPT !.writes = Append(@, w),
                         !.quantityUpdateSuccess = (o # "userErrors")]
     IN /\ (o = "ok" => ev.quantityDefined)    \* parseInt(undefined) is no quantity
        /\ runners' = [runners EXCEPT ![1] =
             IF thrown
             THEN variantLoop_seq(fina,
                    [t1 EXCEPT !.variantErrors = @ + 1, !.vIndex = @ + 1,
                               !.pending = "none"])
             ELSE IF ~ev.priceMatches /\ ev.hasPriceData
             THEN [t1 EXCEPT !.pending = "price"]
             ELSE variantLoop_seq(fina,
                    [countVariant_seq(t1, t1.quantityUpdateSuccess)
                       EXCEPT !.vIndex = @ + 1, !.pending = "none"])]
        /\ shop' = IF o = "ok"
                   THEN applyInventorySet(shop, variant.inventoryItemId,
                                          ev.targetQuantity)
                   ELSE shop
        /\ calls' = [calls EXCEPT !.locations = @ + 1,
                                  !.inventorySets = @ + (IF sent THEN 1 ELSE 0)]
  /\ UNCHANGED <<world, locationIdCache, inv, pc, req, internalIndex,
                 chunkResults, variantsBySku, locationId, next, results,
                 response, prev>>

\* What updateShopifyVariantPrice can come back as: a write outcome, or an
\* answer without userErrors and without productVariants ("noVariants").
SeqPriceOutcomes == WriteOutcomes \cup {"noVariants"}

\* sequential route: updateShopifyVariantPrice has answered
SeqPriceReturns(o) ==
  /\ pc = "pool"
  /\ req.route = "seq"
  /\ runners[1].pending = "price"
  /\ LET t == runners[1]
         fina == seqFina(t)
         variant == t.variants[t.vIndex + 1]
         ev == evalVariant_seq(fina, variant, t.vIndex)
         payload == <<[id |-> variant.id, price |-> toFixed2(ev.targetPrice)]>>
         w == [kind |-> "priceBulk", position |-> t.vIndex,
               inventoryItemId |-> 0, quantity |-> 0, quantityDefined |-> TRUE,
               locationId |-> Null, productId |-> variant.productId,
               variants |-> payload, outcome |-> o]
         t1 == [t EXCEPT !.writes = Append(@, w)]
         t2 == IF o = "throw"
               THEN [t1 EXCEPT !.variantErrors = @ + 1]
               ELSE countVariant_seq(t1, t1.quantityUpdateSuccess /\ o = "ok")
     IN /\ runners' = [runners EXCEPT ![1] =
             variantLoop_seq(fina, [t2 EXCEPT !.vIndex = @ + 1,
                                              !.pending = "none"])]
        /\ shop' = IF o = "ok" THEN applyPricesBulk(shop, payload) ELSE shop
        /\ calls' = [calls EXCEPT !.priceBulks = @ + 1]
  /\ UNCHANGED <<world, locationIdCache, inv, pc, req, internalIndex,
                 chunkResults, variantsBySku, locationId, next, results,
                 response, prev>>

\* the record of the outer catch: the raw map values
resultOfError(product) ==
  [sku |-> product.code, status |-> "error",
   finaQuantity |-> GetOr0(quantityMap, product.id),
   finaB2cPrice |-> GetOr0(b2cPriceMap, product.id),
   finaB2bPrice |-> GetOr0(b2bPriceMap, product.id),
   applied |-> TRUE]

\* A faulty pool for sensitivity runs of C26: a result is stored in the first free
\* slot, in the order in which the workers return.
WorkerReturns_inCompletionOrder(r) ==
  /\ pc = "pool"
  /\ runners[r].pending = "result"
  /\ LET t == runners[r]
         products == internalChunk(internalIndex)
         product == products[t.item]
         i == next
         record == IF req.route = "par"
                   THEN resultOf(product, taskFina(t), t.status)
                   ELSE IF t.variants = <<>> /\ t.status = "error"
                   THEN resultOfError(product)
                   ELSE resultOf(product, seqFina(t), t.status)
         applied == \A k \in DOMAIN t.writes : t.writes[k].outcome = "ok"
         slot == CHOOSE k \in DOMAIN results :
                   /\ results[k].status = "pending"
                   /\ \A j \in 1..(k - 1) : results[j].status # "pending"
     IN /\ results' = [results EXCEPT ![slot] = [record EXCEPT !.applied = applied]]
        /\ next' = next + 1
        /\ runners' = [runners EXCEPT ![r] =
             IF i >= Len(products) THEN NoTask
             ELSE IF req.route = "par"
             THEN worker(products[i + 1], i + 1, variantsBySku)
             ELSE [NoTask EXCEPT !.item = i + 1, !.pending = "lookup"]]
  /\ UNCHANGED <<world, shop, locationIdCache, inv, pc, req, internalIndex,
                 chunkResults, variantsBySku, locationId, calls, response, prev>>
\* The worker of runner r has returned: the result is stored at the item's
\* index and the next item is taken (withConcurrency's `next++`; the for loop
\* of the sequential route), its worker run to its first await.
WorkerReturns(r) ==
  /\ pc = "pool"
  /\ runners[r].pending = "result"
  /\ LET t == runners[r]
         products == internalChunk(internalIndex)
         product == products[t.item]
         i == next
         record == IF req.route = "par"
                   THEN resultOf(product, taskFina(t), t.status)
                   ELSE IF t.variants = <<>> /\ t.status = "error"
                   THEN resultOfError(product)
                   ELSE resultOf(product, seqFina(t), t.status)
         applied == \A k \in DOMAIN t.writes : t.writes[k].outcome = "ok"
     IN /\ results' = [results EXCEPT ![t.item] = [record EXCEPT !.applied = applied]]
        /\ next' = next + 1
        /\ runners' = [runners EXCEPT ![r] =
             IF i >= Len(products) THEN NoTask
             ELSE IF req.route = "par"
             THEN worker(products[i + 1], i + 1, variantsBySku)
             ELSE [NoTask EXCEPT !.item = i + 1, !.pending = "lookup"]]
  /\ UNCHANGED <<world, shop, locationIdCache, inv, pc, req, internalIndex,
                 chunkResults, variantsBySku, locationId, calls, response, prev>>

\* Every runner is done (`await Promise.all(runners)`; the end of the for loop):
\* processProductChunk returns, its results are concatenated, and the action goes
\* on to the next internal chunk or answers.
FinishChunk ==
  /\ pc = "pool"
  /\ \A r \in Runners : runners[r].pending = "done"
  /\ chunkResults' = chunkResults \o results
  /\ IF internalIndex + 1 < internalChunks
     THEN /\ internalIndex' = internalIndex + 1
          /\ pc' = "chunk"
          /\ response' = response
          /\ UNCHANGED <<variantsBySku, locationId, pool>>
     ELSE /\ internalIndex' = 0                    \* the action returns: its
          /\ variantsBySku' = <<>>                 \* locals are gone
          /\ locationId' = Null
          /\ next' = 0
          /\ results' = <<>>
          /\ runners' = runners
          /\ pc' = "idle"
          /\ response' = successResponse(chunkResults \o results)
  /\ UNCHANGED <<world, shop, locationIdCache, inv, req, calls, prev>>

\* ------------------------------------------------------------------ worlds
Product(id, code, fields) == [id |-> id, code |-> code, add_fields |-> fields]
Field(f, v) == [field |-> f, value |-> v]
Variant(sku, productId, q, c) ==
  [sku |-> sku, productId |-> productId, inventoryQuantity |-> q,
   price |-> c * UnitsPerCent]

\* attribute lists: no key, each key alone, both keys, a missing value, a key
\* given twice, a key of another attribute
AddFieldsChoices ==
  { <<>>,
    <<Field("usr_column_503", "0")>>,
    <<Field("usr_column_504", "0")>>,
    <<Field("usr_column_503", ""), Field("usr_column_504", "1")>>,
    <<Field("usr_column_503", Null), Field("usr_column_504", "0")>>,
    <<Field("usr_column_503", "0"), Field("usr_column_503", "1")>>,
    <<Field("usr_column_504", "1"), Field("usr_column_502", "0"),
      Field("usr_column_504", "0")>> }

\* quantity items of product 1 (none, or one) after an item of another product
RestChoices ==
  { <<[id |-> 2, rest |-> MaxRest]>> }
    \cup { <<[id |-> 2, rest |-> MaxRest], [id |-> 1, rest |-> r]>> : r \in 0..MaxRest }

\* price items of product 1: tier 4 always, tiers 3 and 5 each absent or given
TierItem(tier, p) == <<[product_id |-> 1, price_id |-> tier, price |-> p]>>
TierChoices(tier) == {<<>>} \cup {TierItem(tier, p) : p \in 0..MaxPrice}
PriceChoices ==
  { TierItem(4, MaxPrice) \o a \o b :
      a \in TierChoices(B2C_PRICE_ID), b \in TierChoices(B2B_PRICE_ID) }

VariantStates ==
  { Variant("A", 10, q, c) : q \in 0..MaxShopQty, c \in 0..MaxShopCents }

\* no delivery of the order webhook has arrived
QuietWebhook ==
  /\ orderTags = {}
  /\ finaOrders = 0
  /\ finaCustomer = FALSE
  /\ orderCustomer = "none"
  /\ deliveries = <<>>

\* the webhook is quiet and the sync page is not open
QuietElsewhere == QuietWebhook /\ page = [phase |-> "closed"]

QuietSync ==
  /\ locationIdCache = Null
  /\ inv = 0
  /\ pc = "idle"
  /\ req = NoReq
  /\ internalIndex = 0
  /\ chunkResults = <<>>
  /\ variantsBySku = <<>>
  /\ locationId = Null
  /\ next = 0
  /\ runners = [r \in Runners |-> NoTask]
  /\ results = <<>>
  /\ calls = NoCalls
  /\ response = NoResponse
  /\ prev = [route |-> "par", offset |-> 0, limit |-> 1, kind |-> "none",
             records |-> <<>>, trail |-> <<>>]

Quiet == QuietSync /\ QuietElsewhere

\* ---------------------------------------- the delta calculator on one variant
\* One product, one storefront variant and a position: the delta calculator of
\* both routes is applied to the variant as if it stood at that position.
InitDelta ==
  /\ \E fields \in AddFieldsChoices : catalog = <<Product(1, "A", fields)>>
  /\ store_rest \in RestChoices
  /\ prices \in PriceChoices
  /\ \E v \in VariantStates : shop = [id \in {1} |-> v]
  /\ \E vIndex \in 0..2 : probe = [phase |-> "input", vIndex |-> vIndex]
  /\ Quiet

Evaluate ==
  /\ probe.phase = "input"
  /\ probe' =
       [phase |-> "done",
        vIndex |-> probe.vIndex,
        visibility |-> getProductVisibility(catalog[1]),
        visibility_seq |-> getProductVisibility_seq(catalog[1]),
        par |-> evalVariant(finaValues(catalog[1], quantityMap, b2cPriceMap,
                                       b2bPriceMap),
                            variantNode(shop, 1), probe.vIndex),
        seq |-> evalVariant_seq(finaValues_seq(catalog[1], quantityMap,
                                               b2cPriceMap, b2bPriceMap),
                                variantNode(shop, 1), probe.vIndex)]
  /\ UNCHANGED <<catalog, store_rest, prices, shop, locationIdCache, inv, pc,
                 req, internalIndex, chunkResults, variantsBySku, locationId,
                 pool, calls, response, prev, webhook, page>>

NextDelta == Evaluate

SpecDelta == InitDelta /\ [][NextDelta]_vars

Off == [phase |-> "off"]
Absent == [kind |-> "absent", n |-> 0]

\* ------------------------------------------------- one product, one invocation
\* visibility of the product of the product worlds: both channels visible, one
\* hidden, both hidden
ProductFieldChoices ==
  { <<>>,
    <<Field("usr_column_503", "0")>>,
    <<Field("usr_column_504", "0")>>,
    <<Field("usr_column_503", "0"), Field("usr_column_504", "")>> }

\* the ERP values of the product worlds: none for the product, or a quantity with
\* a fraction and prices between two cents
ErpChoices ==
  { [store_rest |-> <<>>, prices |-> <<>>],
    [store_rest |-> <<[id |-> 1, rest |-> MaxRest]>>,
     prices |-> <<[product_id |-> 1, price_id |-> 3, price |-> MaxPrice - 2],
                  [product_id |-> 1, price_id |-> 4, price |-> MaxPrice],
                  [product_id |-> 1, price_id |-> 5, price |-> MaxPrice]>>] }

\* the storefronts of the product worlds: no variant of the sku, one, two, or
\* three (the third one in a fixed state)
ShopChoices ==
  { <<>> }
    \cup { [id \in {1} |-> v] : v \in VariantStates }
    \cup { [id \in {1, 2} |-> IF id = 1 THEN v1 ELSE v2] :
             v1 \in VariantStates, v2 \in VariantStates }
    \cup { [id \in {1, 2, 3} |->
              IF id = 1 THEN v1 ELSE IF id = 2 THEN v2
              ELSE Variant("A", 10, MaxShopQty, MaxShopCents)] :
             v1 \in {Variant("A", 10, q, q) : q \in 0..1},
             v2 \in {Variant("A", 10, q, c) : q \in 0..1, c \in {0, MaxShopCents}} }

\* two further worlds: the sku has no variant but a neighbouring sku has one;
\* the two variants of the sku belong to different storefront products
NeighbourWorld ==
  [catalog |-> <<Product(1, "A", <<>>)>>,
   store_rest |-> <<[id |-> 1, rest |-> MaxRest]>>,
   prices |-> <<>>,
   shop |-> [id \in {1} |-> Variant("A-1", 11, 0, 0)]]
SplitWorld ==
  [catalog |-> <<Product(1, "A", <<>>)>>,
   store_rest |-> <<>>,
   prices |-> <<[product_id |-> 1, price_id |-> 3, price |-> MaxPrice],
                [product_id |-> 1, price_id |-> 5, price |-> MaxPrice]>>,
   shop |-> [id \in {1, 2} |-> Variant("A", 9 + id, 0, 0)]]

ProductWorlds ==
  { [catalog |-> <<Product(1, "A", fields)>>, store_rest |-> e.store_rest,
     prices |-> e.prices, shop |-> sh] :
      fields \in ProductFieldChoices, e \in ErpChoices, sh \in ShopChoices }
    \cup {NeighbourWorld, SplitWorld}

InitProduct ==
  /\ \E w \in ProductWorlds :
       /\ catalog = w.catalog
       /\ store_rest = w.store_rest
       /\ prices = w.prices
       /\ shop = w.shop
  /\ probe = Off
  /\ Quiet

\* the steps of an invocation after its request: those api.sync.jsx takes (the
\* snapshot load, the worker's return and the end of a chunk are the same steps in
\* the sequential route), and those only the sequential route takes
ParSteps ==
  \/ \E o \in LoadOutcomes : LoadSnapshot(o)
  \/ \E outcomes \in [1..CeilDiv(INTERNAL_CHUNK_SIZE, BATCH_SIZE) -> LookupOutcomes],
        locOutcome \in LocationOutcomes : StartChunk(outcomes, locOutcome)
  \/ \E r \in Runners, o \in WriteOutcomes : QuantityWriteReturns(r, o)
  \/ \E r \in Runners, o \in WriteOutcomes : PriceBulkReturns(r, o)
  \/ \E r \in Runners : WorkerReturns(r)
  \/ FinishChunk
SeqSteps ==
  \/ StartChunkSeq
  \/ \E o \in LookupOutcomes : SeqLookupReturns(o)
  \/ \E o \in SeqInventoryOutcomes : SeqInventoryReturns(o)
  \/ \E o \in SeqPriceOutcomes : SeqPriceReturns(o)
Steps == ParSteps \/ SeqSteps

\* one request without offset and limit (the whole catalog is one chunk)
NextProduct ==
  \/ \E route \in Routes : inv = 0 /\ Invoke(route, Absent, Absent)
  \/ Steps

SpecProduct == InitProduct /\ [][NextProduct]_vars

\* ------------------------------------------- several products, several chunks
\* The catalog of a chunk world: skus A, B, C and an empty sku in turn.  B hides
\* its B2C channel.
ChunkProduct(k) ==
  CASE k % 4 = 1 -> Product(k, "A", <<>>)
    [] k % 4 = 2 -> Product(k, "B", <<Field("usr_column_503", "0")>>)
    [] k % 4 = 3 -> Product(k, "C", <<>>)
    [] OTHER     -> Product(k, "", <<>>)

\* a catalog whose two products carry the same sku with different quantities
TwinCatalog == <<Product(1, "A", <<>>), Product(2, "A", <<>>)>>

\* a catalog of four products whose last product has a sku with a variant: with
\* the default limit its first three products are one internal chunk and the
\* last one the next
LateCatalog ==
  <<Product(1, "A", <<>>), Product(2, "", <<>>), Product(3, "C", <<>>),
    Product(4, "B", <<Field("usr_column_503", "0")>>)>>

ChunkCatalogs ==
  { [k \in 1..n |-> ChunkProduct(k)] : n \in 0..MaxProducts }
    \cup {TwinCatalog, LateCatalog}

\* every product has a quantity (MaxRest for odd ids, 1 for even ones) and the two
\* prices MaxPrice - 2 (B2C) and MaxPrice (B2B)
ChunkRest(n) == [k \in 1..n |-> [id |-> k, rest |-> IF k % 2 = 1 THEN MaxRest ELSE 1]]
ChunkPrices(n) ==
  [j \in 1..(2 * n) |->
     IF j % 2 = 1
     THEN [product_id |-> (j + 1) \div 2, price_id |-> 3, price |-> MaxPrice - 2]
     ELSE [product_id |-> j \div 2, price_id |-> 5, price |-> MaxPrice]]

\* The storefront of the chunk worlds.  Sku A: variant 1 lacks stock, variant 2
\* has no price; sku B: variant 3 has stock to remove; variant 4 carries the
\* neighbouring sku C-1.
ChunkShop ==
  [id \in 1..4 |->
     CASE id = 1 -> Variant("A", 10, 0, (MaxPrice - 2) \div UnitsPerCent)
       [] id = 2 -> Variant("A", 10, MathFloor(MaxRest), 0)
       [] id = 3 -> Variant("B", 20, 1, 0)
       [] OTHER  -> Variant("C-1", 30, 0, 0)]

Init ==
  /\ catalog \in ChunkCatalogs
  /\ store_rest = ChunkRest(Len(catalog))
  /\ prices = ChunkPrices(Len(catalog))
  /\ shop = ChunkShop
  /\ probe = Off
  /\ Quiet

\* one request with any offset and limit
Next ==
  \/ \E route \in Routes, rawOffset \in RawOffsets, rawLimit \in RawLimits :
       inv = 0 /\ Invoke(route, rawOffset, rawLimit)
  \/ Steps

Spec == Init /\ [][Next]_vars

\* ------------------------------------------------ one request, several times
\* the caller repeats its last request
Reinvoke ==
  /\ inv > 0
  /\ inv < MaxRepeats
  /\ Invoke(req.route, req.rawOffset, req.rawLimit)

\* api.sync.jsx is asked for a chunk (from the first or the second product on, of
\* two products or up to the end of the catalog), and then for the same again
NextRepeat ==
  \/ \E rawOffset \in {Absent, [kind |-> "num", n |-> 1]},
        rawLimit \in {Absent, [kind |-> "num", n |-> 2]} :
       inv = 0 /\ Invoke("par", rawOffset, rawLimit)
  \/ Reinvoke
  \/ ParSteps

SpecRepeat == Init /\ [][NextRepeat]_vars

\* ------------------------------------------------- the caller's traversal
\* The auto-continue of the page (app._index.jsx): when the answer is not complete
\* and carries a next offset, handleSync posts that offset.  The page sends no
\* limit; a caller with a fixed limit sends the same limit again.
Continue ==
  /\ pc = "idle"
  /\ inv > 0
  /\ ~response.isComplete
  /\ response.nextOffset # <<>>
  /\ Invoke(req.route, [kind |-> "num", n |-> response.nextOffset[1]], req.rawLimit)

\* a traversal begins at offset 0 with the default limit or a limit of its own
TraverseLimits == {Absent} \cup {[kind |-> "num", n |-> k] : k \in 1..MaxLimit}

NextTraverse ==
  \/ \E route \in Routes, rawLimit \in TraverseLimits :
       inv = 0 /\ Invoke(route, [kind |-> "num", n |-> 0], rawLimit)
  \/ Continue
  \/ Steps

SpecTraverse == Init /\ [][NextTraverse]_vars

\* ------------------------------------------------------- the order webhook
\* unnamed/part_001: the action of the orders/create webhook. The model follows
\* one order; every delivery of the webhook for it runs the action, and the
\* deliveries interleave at their awaits.
TAG_START == "start processing"
TAG_SUCCESS == "successfully order created in fina"
TAG_PROBLEM == "order creating problem in fina"

\* the customer of the order, by the branch processOrderToFina takes
CustomerKinds == {"none", "private", "businessNoNumber", "business"}
Deliveries == 1..MaxDeliveries

\* a delivery that has not arrived; answered, processed, created, tagWrites,
\* arrivedWith and overlapped record what the delivery did and met
NewDelivery ==
  [pc |-> "new", response |-> "", arrivedWith |-> {}, overlapped |-> {},
   answered |-> FALSE, existingTags |-> {}, processed |-> FALSE,
   created |-> FALSE, tagWrites |-> <<>>]

Handling(d) == deliveries[d].pc \notin {"new", "done"}

\* getShopifyOrderTags: the tags of the order, and [] when the query fails
getShopifyOrderTags(outcome, tags) == IF outcome = "ok" THEN tags ELSE {}

\* addTagToShopifyOrder: tagsAdd adds the tag; a failure is caught and the
\* call returns false
addTagToShopifyOrder(ok, tags, tag) == IF ok THEN tags \cup {tag} ELSE tags

\* the answer to a delivery, from the tags read before anything is written
duplicateAnswer(existingTags) ==
  IF TAG_SUCCESS \in existingTags THEN "Order already processed"
  ELSE IF TAG_START \in existingTags THEN "Order currently processing"
  ELSE ""

\* processOrderToFina up to its first await
processOrderToFina_entry(customer) ==
  IF customer = "none" THEN "return" ELSE "customer"

\* processOrderToFina after the customer and the metafields are read
processOrderToFina_customer(customer) ==
  IF customer = "business" THEN "finaCustomer"
  ELSE IF customer = "businessNoNumber" THEN "return"
  ELSE "order"

\* the action once processOrderToFina is at position p
Proceed(d, p) ==
  IF p = "return"
    THEN [deliveries[d] EXCEPT !.pc = "done", !.response = "OK"]
    ELSE [deliveries[d] EXCEPT !.pc = p]

\* a tag write of delivery d returns
TagWritten(del, tag, ok) ==
  [del EXCEPT !.tagWrites = Append(@, [tag |-> tag, ok |-> ok])]

\* action: authenticate.webhook; deliveries arrive in the order of their numbers
Arrive(d, authenticated) ==
  /\ deliveries[d].pc = "new"
  /\ \A e \in 1..(d - 1) : deliveries[e].pc # "new"
  /\ deliveries' =
       [deliveries EXCEPT ![d] =
          IF authenticated
            THEN [@ EXCEPT !.pc = "tags", !.arrivedWith = orderTags,
                           !.overlapped = { e \in Deliveries : Handling(e) }]
            ELSE [@ EXCEPT !.pc = "done", !.response = "401"]]
  /\ UNCHANGED <<orderTags, finaOrders, finaCustomer, orderCustomer>>

\* action: getShopifyOrderTags returns and the duplicate checks run
TagsReturn(d, outcome) ==
  /\ deliveries[d].pc = "tags"
  /\ LET existingTags == getShopifyOrderTags(outcome, orderTags)
         answer == duplicateAnswer(existingTags)
     IN deliveries' =
          [deliveries EXCEPT ![d] =
             IF answer # ""
               THEN [@ EXCEPT !.pc = "done", !.response = answer,
                              !.answered = (outcome = "ok"),
                              !.existingTags = existingTags]
               ELSE [@ EXCEPT !.pc = "claim", !.answered = (outcome = "ok"),
                              !.existingTags = existingTags]]
  /\ UNCHANGED <<orderTags, finaOrders, finaCustomer, orderCustomer>>

\* action: the 'start processing' write returns, its result is not looked at,
\* and processOrderToFina starts
ClaimReturns(d, ok) ==
  /\ deliveries[d].pc = "claim"
  /\ orderTags' = addTagToShopifyOrder(ok, orderTags, TAG_START)
  /\ deliveries' =
       [deliveries EXCEPT ![d] =
          [TagWritten(Proceed(d, processOrderToFina_entry(orderCustomer)),
                      TAG_START, ok) EXCEPT !.processed = TRUE]]
  /\ UNCHANGED <<finaOrders, finaCustomer, orderCustomer>>

\* processOrderToFina: getShopifyCustomerWithMetafields returns or throws
CustomerReturns(d, outcome) ==
  /\ deliveries[d].pc = "customer"
  /\ deliveries' =
       [deliveries EXCEPT ![d] =
          IF outcome = "throw"
            THEN [@ EXCEPT !.pc = "tagOuter"]
            ELSE Proceed(d, processOrderToFina_customer(orderCustomer))]
  /\ UNCHANGED <<orderTags, finaOrders, finaCustomer, orderCustomer>>

\* processOrderToFina: getFinaCustomerByCode returns the customer, or null when
\* there is none or the lookup fails
FinaCustomerReturns(d, outcome) ==
  /\ deliveries[d].pc = "finaCustomer"
  /\ outcome = "found" => finaCustomer
  /\ deliveries' =
       [deliveries EXCEPT ![d].pc =
          IF outcome = "found" THEN "order" ELSE "createCustomer"]
  /\ UNCHANGED <<orderTags, finaOrders, finaCustomer, orderCustomer>>

\* processOrderToFina: createFinaCustomer returns a customer with an id, one
\* without, or throws
CreateCustomerReturns(d, outcome) ==
  /\ deliveries[d].pc = "createCustomer"
  /\ finaCustomer' = (finaCustomer \/ outcome # "throw")
  /\ deliveries' =
       [deliveries EXCEPT ![d].pc =
          IF outcome = "ok" THEN "order" ELSE "tagOuter"]
  /\ UNCHANGED <<orderTags, finaOrders, orderCustomer>>

\* processOrderToFina: createFinaOrder saves the document or throws
CreateOrderReturns(d, outcome) ==
  /\ deliveries[d].pc = "order"
  /\ finaOrders' = IF outcome = "ok" THEN finaOrders + 1 ELSE finaOrders
  /\ deliveries' =
       [deliveries EXCEPT ![d] =
          IF outcome = "ok"
            THEN [@ EXCEPT !.pc = "tagSuccess", !.created = TRUE]
            ELSE [@ EXCEPT !.pc = "tagInner"]]
  /\ UNCHANGED <<orderTags, finaCustomer, orderCustomer>>

\* processOrderToFina: the success tag write returns and the action answers
TagSuccessReturns(d, ok) ==
  /\ deliveries[d].pc = "tagSuccess"
  /\ orderTags' = addTagToShopifyOrder(ok, orderTags, TAG_SUCCESS)
  /\ deliveries' =
       [deliveries EXCEPT ![d] =
          TagWritten([@ EXCEPT !.pc = "done", !.response = "OK"],
                     TAG_SUCCESS, ok)]
  /\ UNCHANGED <<finaOrders, finaCustomer, orderCustomer>>

\* processOrderToFina: the problem tag write of the inner catch returns and the
\* error is thrown on to the outer catch
TagInnerReturns(d, ok) ==
  /\ deliveries[d].pc = "tagInner"
  /\ orderTags' = addTagToShopifyOrder(ok, orderTags, TAG_PROBLEM)
  /\ deliveries' =
       [deliveries EXCEPT ![d] =
          TagWritten([@ EXCEPT !.pc = "tagOuter"], TAG_PROBLEM, ok)]
  /\ UNCHANGED <<finaOrders, finaCustomer, orderCustomer>>

\* processOrderToFina: the problem tag write of the outer catch returns and the
\* error is thrown on to the action, whose catch names `order` out of its
\* scope, so that its own tag write is never sent, and which answers
TagOuterReturns(d, ok) ==
  /\ deliveries[d].pc = "tagOuter"
  /\ orderTags' = addTagToShopifyOrder(ok, orderTags, TAG_PROBLEM)
  /\ deliveries' =
       [deliveries EXCEPT ![d] =
          TagWritten([@ EXCEPT !.pc = "done",
                               !.response = "Processing Error - No Retry"],
                     TAG_PROBLEM, ok)]
  /\ UNCHANGED <<finaOrders, finaCustomer, orderCustomer>>

\* everything of the sync routes and of the sync page
elsewhere ==
  <<catalog, store_rest, prices, probe, shop, locationIdCache, inv, pc, req,
    internalIndex, chunkResults, variantsBySku, locationId, pool, calls,
    response, prev, page>>

\* an order without tags, and no delivery yet
InitWebhook ==
  /\ catalog = <<>> /\ store_rest = <<>> /\ prices = <<>> /\ shop = <<>>
  /\ probe = [phase |-> "off"]
  /\ QuietSync
  /\ page = [phase |-> "closed"]
  /\ orderTags = {}
  /\ finaOrders = 0
  /\ orderCustomer \in CustomerKinds
  /\ finaCustomer \in {FALSE, orderCustomer = "business"}
  /\ deliveries = [d \in Deliveries |-> NewDelivery]

NextWebhook ==
  \E d \in Deliveries :
    \/ \E authenticated \in BOOLEAN : Arrive(d, authenticated) /\ UNCHANGED elsewhere
    \/ \E outcome \in {"ok", "errors"} : TagsReturn(d, outcome) /\ UNCHANGED elsewhere
    \/ \E ok \in BOOLEAN : ClaimReturns(d, ok) /\ UNCHANGED elsewhere
    \/ \E outcome \in {"ok", "throw"} : CustomerReturns(d, outcome) /\ UNCHANGED elsewhere
    \/ \E outcome \in {"found", "null"} : FinaCustomerReturns(d, outcome) /\ UNCHANGED elsewhere
    \/ \E outcome \in {"ok", "noId", "throw"} : CreateCustomerReturns(d, outcome) /\ UNCHANGED elsewhere
    \/ \E outcome \in {"ok", "throw"} : CreateOrderReturns(d, outcome) /\ UNCHANGED elsewhere
    \/ \E ok \in BOOLEAN : TagSuccessReturns(d, ok) /\ UNCHANGED elsewhere
    \/ \E ok \in BOOLEAN : TagInnerReturns(d, ok) /\ UNCHANGED elsewhere
    \/ \E ok \in BOOLEAN : TagOuterReturns(d, ok) /\ UNCHANGED elsewhere

SpecWebhook == InitWebhook /\ [][NextWebhook]_vars

\* ------------------------------------------------------------ the sync page
\* app._index.jsx: the page that starts a sync run and continues it chunk by
\* chunk. The page sends only the offset, so the route works with its default
\* limit, for which PageLimit stands; the catalog has page.total products.
ZeroResults == [updated |-> 0, noChange |-> 0, errors |-> 0, notFound |-> 0]
NoData == [kind |-> "none"]

\* the page after its first render: useFetcher, useState, useRef; requests,
\* delivered, accumulated, runsOnData and toasts record what the page did
OpenPage(total) ==
  [phase |-> "open", total |-> total, clicked |-> FALSE,
   fetcherState |-> "idle", data |-> NoData, submitted |-> 0,
   cumulativeResults |-> ZeroResults, processedChunks |-> {},
   timers |-> <<>>, effectPending |-> FALSE,
   requests |-> <<>>, delivered |-> <<>>, accumulated |-> <<>>,
   runsOnData |-> 0, toasts |-> <<>>]

\* api.sync.jsx: the counters of a chunk of `processed` products
CounterSplits(processed) ==
  { c \in [{"successful", "noChange", "errors", "notFound"} -> 0..processed] :
      c.successful + c.noChange + c.errors + c.notFound = processed }

\* api.sync.jsx: the success answer to a request for `offset`; nextOffset is
\* <<>> for null and <<n>> for the number n
chunkAnswer(offset, total, limit, c) ==
  LET chunkSize == Min(limit, IF offset < total THEN total - offset ELSE 0)
      processedProducts == offset + chunkSize
      isComplete == (offset + limit >= total) \/ processedProducts >= total
  IN [kind |-> "ok", isComplete |-> isComplete,
      processedProducts |-> processedProducts,
      chunkResults |-> [successful |-> c.successful, noChange |-> c.noChange,
                        errors |-> c.errors, notFound |-> c.notFound,
                        processed |-> chunkSize],
      nextOffset |-> IF isComplete THEN <<>> ELSE <<offset + limit>>]

\* api.sync.jsx: the answer of the catch block
fatalAnswer == [kind |-> "fatal", isComplete |-> TRUE, nextOffset |-> <<>>]

\* the answers the route can give to a request for `offset`
PageAnswers(offset, total) ==
  {fatalAnswer} \cup
  { chunkAnswer(offset, total, PageLimit, c) :
      c \in CounterSplits(Min(PageLimit, IF offset < total THEN total - offset ELSE 0)) }

\* the effect: chunkKey = `${currentOffset}-${processedProducts}`
chunkKey(data) ==
  <<data.processedProducts - data.chunkResults.processed, data.processedProducts>>

\* a set that never holds a key
alreadyProcessed_never(chunks, key) == FALSE
\* the effect: processedChunks.current.has(chunkKey)
alreadyProcessed(chunks, key) == key \in chunks

\* the effect: the updater passed to setCumulativeResults
accumulate(prevResults, chunkData) ==
  [updated |-> prevResults.updated + chunkData.successful,
   noChange |-> prevResults.noChange + chunkData.noChange,
   errors |-> prevResults.errors + chunkData.errors,
   notFound |-> prevResults.notFound + chunkData.notFound]

\* handleSync(offset): the reset of a run that starts at 0, and the submission;
\* a submission replaces the one the fetcher has in flight
handleSync(p, offset) ==
  [p EXCEPT !.cumulativeResults = IF offset = 0 THEN ZeroResults ELSE @,
            !.processedChunks = IF offset = 0 THEN {} ELSE @,
            !.fetcherState = "submitting",
            !.submitted = offset,
            !.requests = Append(@, offset),
            !.effectPending = TRUE]

\* the body of the auto-continue effect, run after a render in which one of
\* its dependencies changed; setCumulativeResults makes the next such render
useEffect_body(p) ==
  IF p.data.kind = "none" \/ p.fetcherState # "idle"
  THEN [p EXCEPT !.effectPending = FALSE]
  ELSE
    LET data == p.data
        adds == data.kind = "ok" /\ ~alreadyProcessed(p.processedChunks, chunkKey(data))
        timer ==
          IF ~data.isComplete /\ data.nextOffset # <<>>
            THEN <<[kind |-> "handleSync", offset |-> Head(data.nextOffset)]>>
          ELSE IF data.isComplete
            THEN <<[kind |-> "toast", message |-> p.cumulativeResults]>>
          ELSE <<>>
    IN [p EXCEPT
          !.cumulativeResults = IF adds THEN accumulate(@, data.chunkResults) ELSE @,
          !.processedChunks = IF adds THEN @ \cup {chunkKey(data)} ELSE @,
          !.accumulated = IF adds THEN Append(@, chunkKey(data)) ELSE @,
          !.timers = @ \o timer,
          !.runsOnData = @ + 1,
          !.effectPending = adds]

\* everything but the page
besidesPage ==
  <<catalog, store_rest, prices, probe, shop, locationIdCache, inv, pc, req,
    internalIndex, chunkResults, variantsBySku, locationId, pool, calls,
    response, prev, webhook>>

\* the user presses the sync button: onClick={() => handleSync()}
Click ==
  /\ page.phase = "open" /\ ~page.clicked
  /\ page' = [handleSync(page, 0) EXCEPT !.clicked = TRUE]
  /\ UNCHANGED besidesPage

\* the route answers the submission the fetcher has in flight; the timers of one
\* answer are set in consecutive runs of the effect and fire together, long
\* before the answer to the first of their submissions
FetcherReceives ==
  /\ page.phase = "open" /\ page.fetcherState = "submitting"
  /\ \A k \in DOMAIN page.timers : page.timers[k].kind # "handleSync"
  /\ \E answer \in PageAnswers(page.submitted, page.total) :
       page' = [page EXCEPT !.data = answer, !.fetcherState = "loading",
                            !.delivered = Append(@, answer),
                            !.runsOnData = 0, !.effectPending = TRUE]
  /\ UNCHANGED besidesPage

\* the fetcher has reloaded the loaders and is idle again
FetcherIdle ==
  /\ page.phase = "open" /\ page.fetcherState = "loading"
  /\ page' = [page EXCEPT !.fetcherState = "idle", !.effectPending = TRUE]
  /\ UNCHANGED besidesPage

\* the effect runs
EffectRuns ==
  /\ page.phase = "open" /\ page.effectPending
  /\ page' = useEffect_body(page)
  /\ UNCHANGED besidesPage

\* the oldest timer fires, after the effects of the renders before it
TimerFires ==
  /\ page.phase = "open" /\ ~page.effectPending /\ page.timers # <<>>
  /\ LET timer == Head(page.timers)
         rest == [page EXCEPT !.timers = Tail(@)]
     IN page' = IF timer.kind = "handleSync"
                  THEN handleSync(rest, timer.offset)
                  ELSE [rest EXCEPT !.toasts = Append(@, timer.message)]
  /\ UNCHANGED besidesPage

\* a freshly loaded page over a catalog of 1..MaxPageProducts products
InitPage ==
  /\ catalog = <<>> /\ store_rest = <<>> /\ prices = <<>> /\ shop = <<>>
  /\ probe = [phase |-> "off"]
  /\ QuietSync
  /\ QuietWebhook
  /\ \E total \in 1..MaxPageProducts : page = OpenPage(total)

NextPage ==
  \/ Click
  \/ FetcherReceives
  \/ FetcherIdle
  \/ EffectRuns
  \/ TimerFires

SpecPage == InitPage /\ [][NextPage]_vars

\* ======================================================================
\* Properties
\* ======================================================================

\* what the catalog says about a channel, read off the attribute list itself: the
\* key is given and none of its entries carries the string "1"
FieldHides(product, key) ==
  /\ \E k \in DOMAIN product.add_fields : product.add_fields[k].field = key
  /\ \A k \in DOMAIN product.add_fields :
       product.add_fields[k].field = key => product.add_fields[k].value # "1"

ChannelKey(vIndex) == IF vIndex = 0 THEN "usr_column_503" ELSE "usr_column_504"

\* C1: when the visibility field of a product's channel is anything other than
\* the string "1", the target quantity and the target price of that channel's
\* variant (position 0 for B2C, position 1 for B2B) are both 0, in the delta
\* calculator of api.sync.jsx and in the one of the sequential route.
C1_HiddenChannelTargetsZero ==
  (/\ probe.phase = "done"
   /\ probe.vIndex \in {0, 1}
   /\ FieldHides(catalog[1], ChannelKey(probe.vIndex)))
    => /\ probe.par.targetQuantity = 0
       /\ probe.par.targetPrice = 0
       /\ probe.seq.targetQuantity = 0
       /\ probe.seq.targetPrice = 0

\* C1 witness: the B2B channel is hidden while B2C is visible, the ERP has stock
\* and a B2B price for the product, and the B2B variant has been evaluated.
C1_Witness ==
  /\ probe.phase = "done"
  /\ probe.vIndex = 1
  /\ FieldHides(catalog[1], "usr_column_504")
  /\ ~FieldHides(catalog[1], "usr_column_503")
  /\ GetOr0(quantityMap, 1) >= UnitsPerItem
  /\ GetOr0(b2bPriceMap, 1) > 0
  /\ probe.par.targetQuantity = 0
  /\ probe.seq.targetPrice = 0

\* ---------------------------------------------------- one product's worker
\* the runners whose worker has finished its product and not yet handed it in
Finished(route) ==
  {r \in DOMAIN runners :
     pc = "pool" /\ req.route = route /\ runners[r].pending = "result"}

\* the targets of the variant at position vIndex (0 or 1), read off the snapshot
TargetQuantityOf(product, vIndex) ==
  IF FieldHides(product, ChannelKey(vIndex)) THEN 0
  ELSE GetOr0(quantityMap, product.id) \div UnitsPerItem
TargetPriceOf(product, vIndex) ==
  IF FieldHides(product, ChannelKey(vIndex)) THEN 0
  ELSE GetOr0(IF vIndex = 0 THEN b2cPriceMap ELSE b2bPriceMap, product.id)

\* the write calls of a task
QuantityWrites(t, vIndex) ==
  {k \in DOMAIN t.writes :
     /\ t.writes[k].kind = "inventorySet"
     /\ t.writes[k].outcome # "noLocation"
     /\ t.writes[k].inventoryItemId = t.variants[vIndex + 1].inventoryItemId}
PriceCalls(t) == {k \in DOMAIN t.writes : t.writes[k].kind = "priceBulk"}
PriceWrites(t, vIndex) ==
  {k \in PriceCalls(t) :
     \E j \in DOMAIN t.writes[k].variants :
       t.writes[k].variants[j].id = t.variants[vIndex + 1].id}
Positions(t) == {vIndex \in {0, 1} : vIndex < Len(t.variants)}
QuantityDiffers(t, vIndex) ==
  t.variants[vIndex + 1].inventoryQuantity # TargetQuantityOf(taskProduct(t), vIndex)
PriceDiffers(t, vIndex) ==
  Abs(t.variants[vIndex + 1].price - TargetPriceOf(taskProduct(t), vIndex))
    > UnitsPerCent

\* the write rule of api.sync.jsx on the variant at position vIndex of task t
WriteRule(t, vIndex) ==
  /\ QuantityWrites(t, vIndex) # {} <=> QuantityDiffers(t, vIndex)
  /\ \A k \in QuantityWrites(t, vIndex) :
       t.writes[k].quantity = TargetQuantityOf(taskProduct(t), vIndex)
  /\ PriceWrites(t, vIndex) # {} <=> PriceDiffers(t, vIndex)
  /\ (QuantityDiffers(t, vIndex) /\ ~PriceDiffers(t, vIndex))
       => QuantityWrites(t, vIndex) # {} /\ PriceWrites(t, vIndex) = {}

\* C2 (as amended): in api.sync.jsx, for the variant at position 0 or 1 the target
\* quantity is the floor of the snapshot quantity (0 when absent or when the
\* channel is hidden); a quantity write is issued iff the current quantity
\* differs from it, and the variant is in the product's bulk price payload iff
\* the current price differs from the target price by more than 0.01.  A variant
\* whose only mismatch is the quantity gets a quantity write and no price write;
\* a hidden-channel variant with a non-zero quantity and a price above 0.01 gets
\* both.
C2_WriteRule ==
  \A r \in Finished("par") : \A vIndex \in Positions(runners[r]) :
    LET t == runners[r] IN
    /\ WriteRule(t, vIndex)
    /\ (/\ FieldHides(taskProduct(t), ChannelKey(vIndex))
        /\ t.variants[vIndex + 1].inventoryQuantity # 0
        /\ t.variants[vIndex + 1].price > UnitsPerCent)
         => QuantityWrites(t, vIndex) # {} /\ PriceWrites(t, vIndex) # {}

\* C2 as stated: the same, with "a hidden-channel variant with non-zero current
\* values gets both writes".
C2_AsStated ==
  \A r \in Finished("par") : \A vIndex \in Positions(runners[r]) :
    LET t == runners[r] IN
    /\ WriteRule(t, vIndex)
    /\ (/\ FieldHides(taskProduct(t), ChannelKey(vIndex))
        /\ t.variants[vIndex + 1].inventoryQuantity # 0
        /\ t.variants[vIndex + 1].price # 0)
         => QuantityWrites(t, vIndex) # {} /\ PriceWrites(t, vIndex) # {}

\* C2 witness: the B2B variant of a product with a hidden B2B channel had stock
\* and a price above one cent, and got a quantity write and a place in the bulk
\* price payload.
C2_Witness ==
  \E r \in Finished("par") :
    LET t == runners[r] IN
    /\ Len(t.variants) >= 2
    /\ FieldHides(taskProduct(t), "usr_column_504")
    /\ t.variants[2].inventoryQuantity # 0
    /\ t.variants[2].price > UnitsPerCent
    /\ \E k \in QuantityWrites(t, 1) : t.writes[k].quantity = 0
    /\ PriceWrites(t, 1) # {}

\* a write call that the storefront did not apply
FailedWrites(t) == {k \in DOMAIN t.writes : t.writes[k].outcome # "ok"}
Found(t) == t.variants # <<>>
AllMatch(t) ==
  \A vIndex \in Positions(t) : ~QuantityDiffers(t, vIndex) /\ ~PriceDiffers(t, vIndex)

\* C3 as stated: in api.sync.jsx each result record has exactly one of four
\* statuses: not_found iff the SKU resolved to no variant; no_change iff it
\* resolved and every variant's quantity and price matched; updated iff at least
\* one write was attempted and no write failed; error iff at least one write
\* attempt failed.
C3_AsStated ==
  \A r \in Finished("par") :
    LET t == runners[r] IN
    /\ t.status \in {"not_found", "no_change", "updated", "error"}
    /\ t.status = "not_found" <=> ~Found(t)
    /\ t.status = "no_change" <=> Found(t) /\ AllMatch(t)
    /\ t.status = "updated" <=> t.writes # <<>> /\ FailedWrites(t) = {}
    /\ t.status = "error" <=> FailedWrites(t) # {}

\* C4: in api.sync.jsx a product with both channels visible whose variants'
\* current values all match the targets (quantity equal, price within 0.01) gets
\* the status no_change, and no write is issued for it.
C4_NoChangeNoWrites ==
  \A r \in Finished("par") :
    LET t == runners[r] IN
    (/\ Found(t)
     /\ ~FieldHides(taskProduct(t), "usr_column_503")
     /\ ~FieldHides(taskProduct(t), "usr_column_504")
     /\ AllMatch(t))
      => t.status = "no_change" /\ t.writes = <<>>

\* C4 witness: both channels visible, two variants, the ERP has stock and prices,
\* the current prices are within a cent of the targets without being equal to
\* them, and the worker finished with no_change.
C4_Witness ==
  \E r \in Finished("par") :
    LET t == runners[r] IN
    /\ Len(t.variants) = 2
    /\ taskProduct(t).add_fields = <<>>
    /\ TargetQuantityOf(taskProduct(t), 0) > 0
    /\ TargetPriceOf(taskProduct(t), 0) > 0
    /\ t.variants[1].price # TargetPriceOf(taskProduct(t), 0)
    /\ AllMatch(t)
    /\ t.status = "no_change"

\* the lookup of the product's SKU was answered and held no variant of it
LookupEmpty(t) ==
  /\ t.lookedUp
  /\ IF req.route = "par" THEN taskProduct(t).code \notin DOMAIN variantsBySku
     ELSE t.variants = <<>>

\* C5: in both routes a product whose SKU has no variant in the lookup gets the
\* status not_found, and no write is attempted for it.
C5_NotFoundNoWrites ==
  /\ \A route \in Routes : \A r \in Finished(route) :
       LookupEmpty(runners[r])
         => runners[r].status = "not_found" /\ runners[r].writes = <<>>
  /\ (/\ pc = "idle"
      /\ response.kind = "ok"
      /\ Len(catalog) = 1
      /\ \A k \in DOMAIN chunkResults : chunkResults[k].status = "not_found")
       => calls.inventorySets = 0 /\ calls.priceBulks = 0

\* C5 witness: the sequential route looked a SKU up whose only storefront
\* neighbour carries another SKU, got no variant, and reports not_found.
C5_Witness ==
  \E r \in Finished("seq") :
    /\ LookupEmpty(runners[r])
    /\ shop # <<>>
    /\ runners[r].status = "not_found"

\* ------------------------------------------------------ the same request twice
\* an invocation of route `route` has ended with a success response, and so had
\* the invocation before it, of the same request on the same snapshot
Repeated(route) ==
  /\ pc = "idle"
  /\ inv >= 2
  /\ req.route = route
  /\ prev.route = route /\ prev.offset = req.offset /\ prev.limit = req.limit
  /\ prev.kind = "ok"
  /\ response.kind = "ok"

SkuIsUnique(sku) == Cardinality({j \in DOMAIN catalog : catalog[j].code = sku}) = 1
SkuOnStorefront(sku) == \E id \in DOMAIN shop : shop[id].sku = sku

QuantityCallThrew(t) ==
  \E k \in DOMAIN t.writes :
    t.writes[k].kind = "inventorySet" /\ t.writes[k].outcome \in {"throw", "noLocation"}
BothPricesDiffer(t) == Len(t.variants) >= 2 /\ PriceDiffers(t, 0) /\ PriceDiffers(t, 1)

Statuses == {"not_found", "no_change", "updated", "error"}

\* the calls of updateShopifyInventory for the variant at position vIndex, sent or
\* not
QuantityCalls(t, vIndex) ==
  {k \in DOMAIN t.writes :
     t.writes[k].kind = "inventorySet" /\ t.writes[k].position = vIndex}
QuantityCallThrewAt(t, vIndex) ==
  \E k \in QuantityCalls(t, vIndex) : t.writes[k].outcome \in {"throw", "noLocation"}

\* what the delta calculator of the running route says about the variant at
\* position vIndex of task t
Evaluated(t, vIndex) ==
  IF req.route = "par"
  THEN evalVariant(taskFina(t), t.variants[vIndex + 1], vIndex)
  ELSE evalVariant_seq(seqFina(t), t.variants[vIndex + 1], vIndex)

\* every variant for which the delta calculator asks for a write got its write
\* calls, whatever happened to the calls before
EveryVariantWritten(t) ==
  \A vIndex \in 0..(Len(t.variants) - 1) :
    /\ ~Evaluated(t, vIndex).quantityMatches => QuantityCalls(t, vIndex) # {}
    /\ (~Evaluated(t, vIndex).priceMatches /\ Evaluated(t, vIndex).hasPriceData)
         => \/ PriceWrites(t, vIndex) # {}
            \/ req.route = "seq" /\ QuantityCallThrewAt(t, vIndex)

\* C8: in both routes a failed quantity or price write never aborts the chunk: the
\* remaining variants of the product are still evaluated and written, every
\* other product of the slice is processed, and every product of the slice
\* yields exactly one result record.
C8_FailureStaysLocal ==
  /\ \A route \in Routes : \A r \in Finished(route) : EveryVariantWritten(runners[r])
  /\ (pc = "pool" /\ \A r \in DOMAIN runners : runners[r].pending = "done")
       => /\ Len(results) = Len(internalChunk(internalIndex))
          /\ \A k \in DOMAIN results :
               /\ results[k].status \in Statuses
               /\ results[k].sku = internalChunk(internalIndex)[k].code
  /\ (pc = "idle" /\ response.kind = "ok")
       => /\ Len(chunkResults) = actualChunkSize
          /\ \A k \in DOMAIN chunkResults :
               /\ chunkResults[k].status \in Statuses
               /\ chunkResults[k].sku = chunkProducts[k].code

\* C8 witness: the chunk is answered; a write of its first product failed, and a
\* later product was updated with its writes applied.
C8_Witness ==
  /\ pc = "idle"
  /\ response.kind = "ok"
  /\ Len(chunkResults) >= 2
  /\ chunkResults[1].status = "error"
  /\ ~chunkResults[1].applied
  /\ \E k \in 2..Len(chunkResults) :
       chunkResults[k].status = "updated" /\ chunkResults[k].applied

\* ------------------------------------------------------- failed invocations
NoStorefrontCall ==
  /\ calls.lookups = <<>>
  /\ calls.locations = 0
  /\ calls.inventorySets = 0
  /\ calls.priceBulks = 0

\* C9: in both routes, when one of the three snapshot fetches (catalog,
\* quantities, prices) comes back with a non-success status, the invocation
\* answers with the fatal response: success false, isComplete true, nextOffset
\* null, no results; and no storefront lookup or write was issued in it.
C9_SnapshotFailureIsFatal ==
  calls.load \in {"productsFail", "quantitiesFail", "pricesFail"}
    => /\ pc = "idle"
       /\ response.kind = "fatal"
       /\ response.success = FALSE
       /\ response.isComplete = TRUE
       /\ "nextOffset" \in response.fields /\ response.nextOffset = <<>>
       /\ "results" \notin response.fields /\ response.results = <<>>
       /\ chunkResults = <<>>
       /\ NoStorefrontCall

\* C9 witness: the catalog was fetched, the price fetch failed, and the request
\* had asked for a slice with products in it.
C9_Witness ==
  /\ calls.load = "pricesFail"
  /\ calls.products = 1 /\ calls.quantities = 1 /\ calls.prices = 1
  /\ actualChunkSize > 0
  /\ response.kind = "fatal"

InvalidField(raw) == raw.kind = "text" \/ (raw.kind = "num" /\ raw.n < 0)
InvalidRequest ==
  \/ InvalidField(req.rawOffset)
  \/ InvalidField(req.rawLimit)
  \/ (req.rawLimit.kind = "num" /\ req.rawLimit.n = 0)

\* C10: in both routes an invocation with an invalid offset (negative or not a
\* number) or an invalid limit (zero, negative or not a number) answers
\* success false and isComplete true before any remote call: no ERP
\* authentication, no ERP fetch, no storefront query, no storefront write.
C10_InvalidRequestAnsweredAtOnce ==
  (inv > 0 /\ InvalidRequest)
    => /\ pc = "idle"
       /\ response.kind = "invalid"
       /\ response.success = FALSE
       /\ response.isComplete = TRUE
       /\ calls = NoCalls

\* C10 witness: a request with a valid offset and the limit 0 on a catalog with
\* products has been answered.
C10_Witness ==
  /\ inv > 0
  /\ req.rawOffset = [kind |-> "num", n |-> 0]
  /\ req.rawLimit = [kind |-> "num", n |-> 0]
  /\ Len(catalog) > 0
  /\ response.kind = "invalid"
  /\ calls = NoCalls

\* ---------------------------------------------------------------- C11
\* an invocation that was answered with success on a catalog that is not empty
Succeeded ==
  /\ pc = "idle"
  /\ inv > 0
  /\ response.kind \in {"ok", "emptyRange"}

TrailNow == Append(prev.trail, trailEntry)

\* the catalog positions (from 1) an invocation processed
SliceOf(e) == (e.offset + 1)..(e.offset + e.processed)

\* the traversal has come to its end and every invocation of it succeeded
Traversed ==
  /\ pc = "idle"
  /\ inv > 0
  /\ response.isComplete
  /\ \A k \in DOMAIN TrailNow : TrailNow[k].kind = "ok"

TraversalIsExact ==
  Traversed =>
    /\ totalProducts > 0
    /\ inv = CeilDiv(totalProducts, req.limit)
    /\ Len(TrailNow) = inv
    /\ \A j, k \in DOMAIN TrailNow :
         j # k => SliceOf(TrailNow[j]) \cap SliceOf(TrailNow[k]) = {}
    /\ UNION {SliceOf(TrailNow[k]) : k \in DOMAIN TrailNow} = 1..totalProducts
    /\ response.nextOffset = <<>>

\* the caller has stopped: the invocation is answered and nothing is to follow
TraversalEnds ==
  /\ pc = "idle"
  /\ inv > 0
  /\ ~ENABLED Continue

CountersAreZero ==
  /\ response.successful = 0
  /\ response.noChange = 0
  /\ response.errors = 0
  /\ response.notFound = 0
  /\ response.processed = 0

\* a valid request whose range holds no record (the catalog is empty, or the
\* offset lies at or behind its end) has been answered, and not with the fatal
\* answer
NothingInRange ==
  /\ pc = "idle"
  /\ inv > 0
  /\ response.kind \in {"empty", "emptyRange", "ok"}
  /\ req.offset >= totalProducts

\* C13 as stated: in both routes such an invocation answers success = true and
\* isComplete = true with every result counter equal to zero, and makes no
\* storefront lookup and no write.
C13_AsStated ==
  NothingInRange =>
    /\ response.success /\ response.isComplete
    /\ CounterFields \subseteq response.fields
    /\ CountersAreZero
    /\ NoStorefrontCall

\* ---------------------------------------------------------------- C14
\* the target quantity a visible channel is to get: Math.floor of the snapshot
\* quantity of the product (0 when the snapshot has none)
VisibleTargetQuantity == MathFloor(GetOr0(quantityMap, catalog[1].id))

\* C14: in both routes the target quantity of a channel's variant depends on the
\* visibility of that channel alone: when the B2B channel resolves to "1" the
\* target quantity of the variant at position 1 is floor(snapshot quantity)
\* whatever the B2C channel resolves to, and likewise for B2C at position 0.
C14_AsStated ==
  probe.phase = "done" =>
    /\ (probe.vIndex = 1 /\ probe.visibility.b2b = "1")
         => probe.par.targetQuantity = VisibleTargetQuantity
    /\ (probe.vIndex = 0 /\ probe.visibility.b2c = "1")
         => probe.par.targetQuantity = VisibleTargetQuantity
    /\ (probe.vIndex = 1 /\ probe.visibility_seq.b2b = "1")
         => probe.seq.targetQuantity = VisibleTargetQuantity
    /\ (probe.vIndex = 0 /\ probe.visibility_seq.b2c = "1")
         => probe.seq.targetQuantity = VisibleTargetQuantity

\* ---------------------------------------------------------------- C15
\* the variants past the two channel positions
ExtraPositions(t) == 2..(Len(t.variants) - 1)

FirstTwoMatch(t) ==
  \A vIndex \in {0, 1} :
    Evaluated(t, vIndex).quantityMatches /\ Evaluated(t, vIndex).priceMatches

\* C15: in both routes, for a SKU with three or more variants no quantity write
\* and no price write is ever made for a variant at position 2 or beyond, and
\* the extra variants neither make the status error nor keep it from being
\* no_change when the first two variants match.
C15_AsStated ==
  \A route \in Routes : \A r \in Finished(route) :
    LET t == runners[r] IN
    Len(t.variants) >= 3 =>
      /\ \A vIndex \in ExtraPositions(t) :
           QuantityCalls(t, vIndex) = {} /\ PriceWrites(t, vIndex) = {}
      /\ FirstTwoMatch(t) => t.status = "no_change"

\* ---------------------------------------------------------------- C16
\* the storefront variants the search for the product's SKU returns, and those
\* among them that carry exactly that SKU
SearchHits(t) == productVariantsQuery(shop, <<taskProduct(t).code>>)
OnlyNeighbours(t) ==
  /\ t.lookedUp
  /\ SearchHits(t) # <<>>
  /\ \A k \in DOMAIN SearchHits(t) : SearchHits(t)[k].sku # taskProduct(t).code

\* C16: in both routes a product is bound only to storefront variants whose sku
\* is exactly the product's SKU; when the search returns only variants with
\* neighbouring SKUs the product is not_found and none of them is written.
C16_AsStated ==
  \A route \in Routes : \A r \in Finished(route) :
    LET t == runners[r] IN
    /\ \A k \in DOMAIN t.variants : t.variants[k].sku = taskProduct(t).code
    /\ OnlyNeighbours(t) => t.status = "not_found" /\ t.writes = <<>>

\* ---------------------------------------------------------------- C17
\* the items of the internal chunk whose worker has been called and whose result
\* is not stored yet, read off withConcurrency's own counter and result array
InFlight ==
  IF pc = "pool" /\ req.route = "par"
  THEN {k \in DOMAIN results : k <= next /\ results[k].status = "pending"}
  ELSE {}

\* C17: in api.sync.jsx at most 30 products of an internal chunk are processed at
\* any moment: the worker calls in flight in withConcurrency never exceed
\* min(limit, number of items), under every interleaving of their awaits.
C17_BoundedPool ==
  (pc = "pool" /\ req.route = "par") =>
    /\ Cardinality(InFlight) <= CONCURRENCY
    /\ Cardinality(InFlight) <= Len(internalChunk(internalIndex))
    /\ InFlight = {runners[r].item : r \in {q \in Runners : runners[q].pending # "done"}}

\* an internal chunk with more items than runners: the pool is full, an item
\* waits, and the first runner is not the one that is ahead
C17_Witness ==
  /\ pc = "pool" /\ req.route = "par"
  /\ Len(internalChunk(internalIndex)) > CONCURRENCY
  /\ Cardinality(InFlight) = CONCURRENCY
  /\ next = CONCURRENCY
  /\ runners[1].pending \in {"qty", "price"}
  /\ runners[2].pending = "result"

\* ---------------------------------------------------------------- C18
\* the runners of api.sync.jsx that hold a product
Busy == {r \in DOMAIN runners :
           pc = "pool" /\ req.route = "par" /\ runners[r].pending # "done"}

\* the write log of a task is in order: the quantity writes by ascending
\* position, one per position at most, and the bulk price write, if there is one,
\* after all of them
WritesInOrder(t) ==
  /\ \A j, k \in DOMAIN t.writes :
       (j < k /\ t.writes[k].kind = "inventorySet")
         => /\ t.writes[j].kind = "inventorySet"
            /\ t.writes[j].position < t.writes[k].position
  /\ Cardinality(PriceCalls(t)) <= 1

\* C18: in api.sync.jsx the variants of one product are processed one after the
\* other in position order, and the bulk price write of the product is issued
\* only when every variant has been evaluated and every quantity write of the
\* product has returned; no price write comes before a quantity write of its
\* product.
C18_PriceAfterQuantities ==
  \A r \in Busy :
    LET t == runners[r] IN
    /\ WritesInOrder(t)
    /\ t.pending = "qty"
         => /\ t.vIndex < Len(t.variants)
            /\ PriceCalls(t) = {}
            /\ \A k \in DOMAIN t.writes : t.writes[k].position < t.vIndex
    /\ t.pending = "price"
         => /\ t.vIndex = Len(t.variants)
            /\ PriceCalls(t) = {}
            /\ \A vIndex \in 0..(Len(t.variants) - 1) :
                 ~Evaluated(t, vIndex).quantityMatches
                   => QuantityCalls(t, vIndex) # {}
    /\ PriceCalls(t) # {} => t.pending = "result"

\* the price of the first variant and the quantity of the second differ: the
\* price write waits for the quantity write of the second variant and follows it
C18_Witness ==
  \E r \in Busy :
    LET t == runners[r] IN
    /\ Len(t.variants) >= 2
    /\ Evaluated(t, 0).quantityMatches /\ ~Evaluated(t, 0).priceMatches
    /\ Len(t.writes) = 2
    /\ t.writes[1].kind = "inventorySet" /\ t.writes[1].position = 1
    /\ t.writes[2].kind = "priceBulk"
    /\ \E j \in DOMAIN t.writes[2].variants : t.writes[2].variants[j].id = t.variants[1].id

\* ---------------------------------------------------------------- C19
\* the location id the running invocation of api.sync.jsx works with was
\* resolved by a location query of this invocation
OwnLocation == locationId # Null => calls.locations >= 1

\* the ERP token the running invocation works with was fetched by this invocation
OwnToken == calls.load # "none" => calls.auth = 1

\* C19: chunk invocations share no mutable state: no value written by one
\* invocation (the resolved location id, the ERP token) is read by another, so
\* the location id of an invocation's quantity writes is always one that was
\* resolved through the storefront client of that invocation.
C19_AsStated ==
  (inv > 0 /\ req.route = "par") =>
    /\ OwnToken
    /\ OwnLocation
    /\ \A r \in Busy : \A k \in DOMAIN runners[r].writes :
         runners[r].writes[k].kind = "inventorySet" => calls.locations >= 1

\* ---------------------------------------------------------------- C20
\* the inventory write calls made so far for the products the runners hold
WritesWithLocation ==
  {w \in UNION {{runners[r].writes[k] : k \in DOMAIN runners[r].writes} :
                  r \in DOMAIN runners} :
     w.kind = "inventorySet" /\ w.outcome # "noLocation"}

\* the inventory write calls of the product the sequential route is at
InventoryCalls(t) == {k \in DOMAIN t.writes : t.writes[k].kind = "inventorySet"}

\* C20 as stated: in each route the storefront location is resolved at most once in
\* a chunk invocation and every quantity write of the invocation carries that
\* one location id; the location is never queried again for a variant write.
C20_AsStated ==
  inv > 0 =>
    /\ calls.locations <= 1
    /\ \A w \in WritesWithLocation : w.locationId = ShopLocation

\* C20: api.sync.jsx queries the location at most once in a chunk invocation,
\* before its first product, and every quantity write of the invocation carries
\* the id it holds from then on.  The sequential route queries the location in
\* every call of updateShopifyInventory, once per quantity write; its writes
\* carry the id of their own query.
C20_LocationQueries ==
  /\ (inv > 0 /\ req.route = "par") =>
        /\ calls.locations <= 1
        /\ pc = "pool" => locationId = ShopLocation
        /\ \A w \in WritesWithLocation : w.locationId = ShopLocation
  /\ (inv > 0 /\ req.route = "seq") =>
        /\ calls.locations >= calls.inventorySets
        /\ \A r \in DOMAIN runners :
             Cardinality(InventoryCalls(runners[r])) <= calls.locations
        /\ \A w \in WritesWithLocation : w.locationId = ShopLocation

\* api.sync.jsx has made quantity writes for two products of one invocation and
\* has queried the location once
C20_Witness ==
  /\ pc = "pool" /\ req.route = "par"
  /\ calls.locations = 1
  /\ calls.inventorySets >= 2
  /\ \E r1, r2 \in DOMAIN runners :
       r1 # r2 /\ InventoryCalls(runners[r1]) # {} /\ InventoryCalls(runners[r2]) # {}

\* ---------------------------------------------------------------- C21
\* the positions of the attribute entries of a product that carry a key, and the
\* value of an entry as the resolver reads it (field.value || '')
EntriesOf(product, key) ==
  {k \in DOMAIN product.add_fields : product.add_fields[k].field = key}
ValueRead(product, k) ==
  IF product.add_fields[k].value = Null THEN "" ELSE product.add_fields[k].value
FirstValue(product, key) ==
  IF EntriesOf(product, key) = {} THEN "1"
  ELSE ValueRead(product, CHOOSE k \in EntriesOf(product, key) :
                            \A j \in EntriesOf(product, key) : k <= j)
LastValue(product, key) ==
  IF EntriesOf(product, key) = {} THEN "1"
  ELSE ValueRead(product, CHOOSE k \in EntriesOf(product, key) :
                            \A j \in EntriesOf(product, key) : k >= j)

\* C21 as stated: in both routes getProductVisibility returns, for each of the two
\* visibility keys, the value of the first attribute entry that carries the key,
\* and "1" when no entry carries it.
C21_AsStated ==
  probe.phase = "done" =>
    /\ probe.visibility.b2c = FirstValue(catalog[1], "usr_column_503")
    /\ probe.visibility.b2b = FirstValue(catalog[1], "usr_column_504")
    /\ probe.visibility_seq.b2c = FirstValue(catalog[1], "usr_column_503")
    /\ probe.visibility_seq.b2b = FirstValue(catalog[1], "usr_column_504")

\* C21: in both routes getProductVisibility returns, for each of the two
\* visibility keys, the value of the last attribute entry that carries the key
\* (the empty string when that entry has no value), and "1" when no entry
\* carries it.
C21_LastEntryWins ==
  probe.phase = "done" =>
    /\ probe.visibility.b2c = LastValue(catalog[1], "usr_column_503")
    /\ probe.visibility.b2b = LastValue(catalog[1], "usr_column_504")
    /\ probe.visibility_seq.b2c = LastValue(catalog[1], "usr_column_503")
    /\ probe.visibility_seq.b2b = LastValue(catalog[1], "usr_column_504")

\* a product that gives the B2C key twice, "0" and then "1": it resolves to "1"
C21_Witness ==
  /\ probe.phase = "done"
  /\ Cardinality(EntriesOf(catalog[1], "usr_column_503")) = 2
  /\ FirstValue(catalog[1], "usr_column_503") = "0"
  /\ probe.visibility.b2c = "1"
  /\ probe.visibility_seq.b2c = "1"
  /\ probe.visibility.b2b = "1"


\* ---------------------------------------------------------------- C22
\* the sku lists of a sequence of queries, one after the other
RECURSIVE Flatten(_)
Flatten(qs) == IF qs = <<>> THEN <<>> ELSE Head(qs) \o Flatten(Tail(qs))

\* products.map(p => p.code).filter(Boolean) of a whole sub-chunk
codesOf(products) ==
  SelectSeq([k \in DOMAIN products |-> products[k].code], LAMBDA c : c # "")

IsPrefix(s, t) == Len(s) <= Len(t) /\ s = SubSeq(t, 1, Len(s))

\* the lookup queries a step adds to the log
NewLookups == SubSeq(calls'.lookups, Len(calls.lookups) + 1, Len(calls'.lookups))

\* C22: the preload of one internal sub-chunk of api.sync.jsx sends queries of
\* at most BATCH_SIZE skus each, at most ceil(n / BATCH_SIZE) queries for a
\* sub-chunk of n products, and the queries taken together list the non-empty
\* skus of the sub-chunk in catalog order, each product's sku once: a product
\* with a non-empty sku is asked for in exactly one query (a preload cut short
\* by a thrown query has sent a prefix of that list).
C22_PreloadStep ==
  (pc = "chunk" /\ req.route = "par") =>
    LET products == internalChunk(internalIndex) IN
    /\ \A q \in DOMAIN NewLookups :
         Len(NewLookups[q]) >= 1 /\ Len(NewLookups[q]) <= BATCH_SIZE
    /\ Len(NewLookups) <= CeilDiv(Len(products), BATCH_SIZE)
    /\ IsPrefix(Flatten(NewLookups), codesOf(products))
    /\ pc' = "pool" => Flatten(NewLookups) = codesOf(products)
    /\ (pc' = "pool" /\ \A i, j \in DOMAIN products :
                           products[i].code = products[j].code => i = j)
         => \A i \in DOMAIN products :
              products[i].code # "" =>
                Cardinality({q \in DOMAIN NewLookups :
                   \E k \in DOMAIN NewLookups[q] :
                      NewLookups[q][k] = products[i].code}) = 1
TotalCalls ==
  calls.auth + calls.products + calls.quantities + calls.prices
    + calls.locations + Len(calls.lookups) + calls.inventorySets
    + calls.priceBulks
PhaseRank(p) == IF p = "load" THEN 1 ELSE IF p = "idle" THEN 3 ELSE 2
Progress ==
  <<PhaseRank(pc), internalIndex, IF pc = "pool" THEN 1 ELSE 0, next, TotalCalls>>
LexLess(a, b) ==
  \E k \in DOMAIN a : a[k] < b[k] /\ \A j \in 1..(k - 1) : a[j] = b[j]

\* every step inside an invocation moves it forward
StepAdvances == pc # "idle" => LexLess(Progress, Progress')

\* no call is made twice: the ERP is asked once for each part of the snapshot,
\* and no variant of a product gets a second write of the same kind
NoRetry ==
  /\ calls.auth <= 1 /\ calls.products <= 1
  /\ calls.quantities <= 1 /\ calls.prices <= 1
  /\ \A r \in Runners : \A i, j \in DOMAIN runners[r].writes :
       (/\ runners[r].writes[i].kind = runners[r].writes[j].kind
        /\ runners[r].writes[i].position = runners[r].writes[j].position) => i = j

\* withConcurrency: every runner has left its loop exactly when every item has
\* its result, and then processProductChunk returns
AllStored == \A k \in DOMAIN results : results[k].status # "pending"
AllRunnersDone == \A r \in Runners : runners[r].pending = "done"
PoolResolves == pc = "pool" => (AllStored <=> AllRunnersDone)

\* an invocation that is under way can always take a step once the call it
\* waits for returns, and one that has returned has answered
Answered ==
  /\ response.kind \in {"invalid", "fatal", "empty", "emptyRange", "ok"}
  /\ {"success", "isComplete"} \subseteq response.fields
  /\ response.httpStatus \in {200, 500}
\* what an invocation under way waits for: the snapshot, the preload of a chunk,
\* the call a runner awaits (or the storing of its result), or the return of
\* processProductChunk
Awaited ==
  \/ pc \in {"load", "chunk"}
  \/ /\ pc = "pool"
     /\ \A r \in Runners :
          runners[r].pending \in {"lookup", "qty", "price", "result", "done"}
     /\ req.route = "par" => \A r \in Runners : runners[r].pending # "lookup"
     /\ req.route = "seq" => \A r \in Runners : r # 1 => runners[r].pending = "done"
InvocationGoesOn ==
  /\ pc # "idle" => Awaited
  /\ pc # "idle" => response = NoResponse
  /\ (pc = "idle" /\ inv > 0) => Answered

\* C23: provided every remote call returns or fails, every chunk invocation
\* returns a structured answer that carries success and isComplete: an
\* invocation under way always has a step to take, every step moves it forward
\* (no call is repeated, so it has finitely many steps), the worker pool resolves
\* once every item has a result, and the invocation ends in an answer.
C23_InvocationReturns ==
  /\ [](InvocationGoesOn /\ NoRetry /\ PoolResolves)
  /\ [][StepAdvances]_vars

\* an invocation that went through failed writes and a thrown write has returned
\* the success answer
C23_Witness ==
  /\ pc = "idle"
  /\ inv > 0
  /\ response.kind = "ok"
  /\ response.success /\ "isComplete" \in response.fields
  /\ calls.inventorySets >= 2
  /\ countStatus(chunkResults, "error") >= 1


\* ---------------------------------------------------------------- C24
\* the writes of a task that the storefront reported as failed, in one of the
\* three forms: a userErrors list, an errors payload without data, an exception
ReportedFailures(t) ==
  {k \in DOMAIN t.writes : t.writes[k].outcome \in {"userErrors", "errors", "throw"}}

\* C24 as stated: in both sync routes a product with a quantity write or a price
\* write that the storefront reported as failed, in any of the three forms, has
\* the status error and never updated.
C24_AsStated ==
  \A r \in Finished("par") \cup Finished("seq") :
    ReportedFailures(runners[r]) # {} => runners[r].status = "error"


\* ---------------------------------------------------------------- C25
\* C25 as stated: every variant id in the payload of a bulk price write of
\* api.sync.jsx belongs to the product whose id the call passes as productId,
\* also when the two variants resolved for one SKU have different parents.
C25_AsStated ==
  req.route = "par" =>
    \A r \in Runners : \A k \in DOMAIN runners[r].writes :
      runners[r].writes[k].kind = "priceBulk" =>
        bulkPayloadBelongs(shop, runners[r].writes[k].productId,
                           runners[r].writes[k].variants)


\* ---------------------------------------------------------------- C26
\* the runners of the pool that hold an item
Holding == {r \in Runners : runners[r].pending # "done"}
Stored == {k \in DOMAIN results : results[k].status # "pending"}

\* C26: withConcurrency hands every item index to the worker exactly once under
\* every interleaving of the awaits and stores each outcome at the item's own
\* index, so the results of a chunk, and the first results of the answer, are in
\* catalog order whatever the order in which the workers return.
C26_OwnIndex ==
  req.route = "par" =>
    /\ pc = "pool" =>
         LET products == internalChunk(internalIndex)
             handed == 1..Min(next, Len(products))
         IN /\ \A r, q \in Holding : runners[r].item = runners[q].item => r = q
            /\ \A r \in Holding : runners[r].item \in handed \ Stored
            /\ Stored \subseteq handed
            /\ \A k \in handed : k \in Stored \/ \E r \in Holding : runners[r].item = k
            /\ \A k \in Stored : results[k].sku = products[k].code
    /\ \A k \in DOMAIN chunkResults : chunkResults[k].sku = chunkProducts[k].code
    /\ (pc = "idle" /\ response.kind = "ok") =>
         /\ Len(response.results) = Min(actualChunkSize, RESULTS_CAP)
         /\ \A k \in DOMAIN response.results :
              response.results[k].sku = catalog[req.offset + k].code

\* the second item of a chunk has its result while the first is still at work
C26_Witness ==
  /\ pc = "pool"
  /\ req.route = "par"
  /\ Len(results) >= 2
  /\ results[1].status = "pending"
  /\ results[2].status # "pending"
  /\ results[2].sku = internalChunk(internalIndex)[2].code
  /\ results[2].sku # internalChunk(internalIndex)[1].code


\* ---------------------------------------------------------------- C27
\* the catalog records inside [offset, offset + limit)
InRange == {k \in DOMAIN catalog : k > req.offset /\ k <= req.offset + req.limit}

\* C27: in every successful chunk answer the four counters add up to the number
\* of processed products, which is the number of catalog records in
\* [offset, offset + limit), whatever writes fail and whatever is thrown while
\* a product is processed.
C27_CountersAddUp ==
  (pc = "idle" /\ response.kind = "ok") =>
    /\ response.successful + response.noChange + response.errors
         + response.notFound = response.processed
    /\ response.processed = Cardinality(InRange)
    /\ Len(chunkResults) = response.processed

\* a successful answer over three products of which one had a write that threw
\* and one was not found
C27_Witness ==
  /\ pc = "idle"
  /\ response.kind = "ok"
  /\ response.processed = 3
  /\ response.errors >= 1
  /\ response.notFound >= 1
  /\ response.successful + response.noChange >= 1
  /\ calls.inventorySets + calls.priceBulks >= 2


\* ---------------------------------------------------------------- C28
\* C28 as stated: an invocation that ends with the fatal answer has issued no
\* storefront quantity write and no price write; a failure of the variant lookup
\* or of the location query in a later internal chunk cannot come after writes
\* of an earlier internal chunk.
C28_AsStated ==
  (pc = "idle" /\ response.kind = "fatal") =>
    calls.inventorySets = 0 /\ calls.priceBulks = 0


\* ---------------------------------------------------------------- C29
\* the skus of the catalog records inside the slice
SliceSkus == {catalog[k].code : k \in InRange}
\* the variants a write call of a task is about
WrittenBy(w) ==
  IF w.kind = "inventorySet" THEN {w.inventoryItemId}
  ELSE {w.variants[k].id : k \in DOMAIN w.variants}

\* C29: in one invocation of api.sync.jsx the only storefront variants that get
\* a quantity write or a price write are variants whose sku is the sku of a
\* catalog record inside [offset, offset + limit); the quantity and the price of
\* every other variant are unchanged.
C29_Frame ==
  (req.route = "par" /\ inv = 1) =>
    /\ \A r \in Runners : \A k \in DOMAIN runners[r].writes :
         \A v \in WrittenBy(runners[r].writes[k]) : shop[v].sku \in SliceSkus
    /\ \A v \in DOMAIN shop :
         shop[v].sku \notin SliceSkus =>
           /\ shop[v].inventoryQuantity = ChunkShop[v].inventoryQuantity
           /\ shop[v].price = ChunkShop[v].price

\* a slice with the skus B and C only: the variant of B was written, the lookup
\* of C was answered with the neighbouring sku C-1, and the variants of A and of
\* C-1 are as they were
C29_Witness ==
  /\ req.route = "par"
  /\ pc = "idle"
  /\ response.kind = "ok"
  /\ SliceSkus = {"B", "C"}
  /\ shop[3] # ChunkShop[3]
  /\ \E q \in DOMAIN calls.lookups :
       productVariantsQuery(ChunkShop, calls.lookups[q]) # <<>>
       /\ \A k \in DOMAIN productVariantsQuery(ChunkShop, calls.lookups[q]) :
            productVariantsQuery(ChunkShop, calls.lookups[q])[k].sku = "C-1"
  /\ \A v \in {1, 2, 4} : shop[v] = ChunkShop[v]


\* ---------------------------------------------------------------- C30
\* The invocation before the running one was an invocation of api.sync.jsx for
\* the same offset and limit that returned the success answer, in which every
\* storefront call succeeded: every issued write was applied, and no record is
\* not_found although a variant carries its sku (a lookup without data).
FirstRunClean ==
  /\ inv >= 2
  /\ req.route = "par" /\ prev.route = "par"
  /\ prev.offset = req.offset /\ prev.limit = req.limit
  /\ prev.kind = "ok"
  /\ \A k \in DOMAIN prev.records :
       /\ prev.records[k].applied
       /\ prev.records[k].status = "not_found" => ~SkuOnStorefront(prev.records[k].sku)

\* no quantity write and no bulk price write is issued or in flight
NoWriteIssued ==
  /\ calls.inventorySets = 0
  /\ calls.priceBulks = 0
  /\ \A r \in Runners : runners[r].pending \notin {"qty", "price"}

\* no two records of the slice carry the same sku
SliceSkusDistinct ==
  \A i, j \in InRange :
    (catalog[i].code = catalog[j].code /\ catalog[i].code # "") => i = j

C31_AsStated ==
  (pc = "idle" /\ inv > 0 /\ response.success
     /\ "processedProducts" \in response.fields) =>
    response.processedProducts <= response.totalProducts


\* ---------------------------------------------------------------- C32
\* C32 as stated: for the same product, visibility attributes and snapshots, and
\* a variant at one of the first two positions, api.sync.jsx computes the same
\* target quantity and target price (and so the same match results) as the
\* sequential processor.
C32_AsStated ==
  (probe.phase = "done" /\ probe.vIndex <= 1) =>
    /\ probe.visibility = probe.visibility_seq
    /\ probe.par.targetQuantity = probe.seq.targetQuantity
    /\ probe.par.targetPrice = probe.seq.targetPrice
    /\ probe.par.quantityMatches = probe.seq.quantityMatches
    /\ probe.par.priceMatches = probe.seq.priceMatches

\* ---------------------------------------------------------------- C33
\* the delivery's tag query was answered and none of its tag writes failed
Undisturbed(d) ==
  /\ deliveries[d].answered
  /\ \A k \in DOMAIN deliveries[d].tagWrites : deliveries[d].tagWrites[k].ok

\* C33 as stated: when two deliveries of the webhook for the same order are
\* handled concurrently, the 'start processing' claim lets at most one of them
\* go on to create an order in the ERP.
\* Stated for deliveries whose tag query was answered and whose tag writes all
\* succeeded.
C33_AsStated ==
  \A d, e \in Deliveries :
    (d # e /\ e \in deliveries[d].overlapped /\ Undisturbed(d) /\ Undisturbed(e)) =>
      ~(deliveries[d].created /\ deliveries[e].created)

\* ---------------------------------------------------------------- C34
\* C34 as stated: once the order carries 'successfully order created in fina',
\* a delivery that arrives later creates no ERP order and writes no tag, and it
\* is answered "Order already processed".
C34_AsStated ==
  \A d \in Deliveries :
    TAG_SUCCESS \in deliveries[d].arrivedWith =>
      /\ ~deliveries[d].created
      /\ deliveries[d].tagWrites = <<>>
      /\ deliveries[d].pc = "done" =>
           deliveries[d].response = "Order already processed"

\* ---------------------------------------------------------------- C35
\* C35 as stated: an order whose earlier processing failed and that carries
\* 'order creating problem in fina' is processed again by a delivery that
\* arrives later: the delivery goes on to processOrderToFina. Stated for a
\* delivery that meets no other delivery, whose tag query is answered and whose
\* tag writes succeed.
C35_AsStated ==
  \A d \in Deliveries :
    (/\ TAG_PROBLEM \in deliveries[d].arrivedWith
     /\ TAG_SUCCESS \notin deliveries[d].arrivedWith
     /\ deliveries[d].overlapped = {}
     /\ Undisturbed(d)
     /\ deliveries[d].pc = "done") =>
      deliveries[d].processed

\* ---------------------------------------------------------------- C36
\* C36 as stated: once a delivery that claimed the order with 'start processing'
\* has been handled, and its tag writes succeeded, the order carries
\* 'successfully order created in fina' or 'order creating problem in fina',
\* whatever the customer of the order.
C36_AsStated ==
  \A d \in Deliveries :
    (/\ deliveries[d].pc = "done"
     /\ deliveries[d].processed
     /\ Undisturbed(d)) =>
      orderTags \cap {TAG_SUCCESS, TAG_PROBLEM} # {}

\* ---------------------------------------------------------------- C37
\* the chunk answers the fetcher has taken so far
DeliveredChunks ==
  { k \in DOMAIN page.delivered : page.delivered[k].kind = "ok" }

\* the sum of one counter over the delivered chunk answers with an index in K
RECURSIVE SumOver(_, _)
SumOver(K, field) ==
  IF K = {} THEN 0
  ELSE LET k == CHOOSE x \in K : TRUE
       IN page.delivered[k].chunkResults[field] + SumOver(K \ {k}, field)

\* the delivered chunk answers the effect has counted
Counted ==
  { k \in DeliveredChunks : chunkKey(page.delivered[k]) \in page.processedChunks }

\* the run has ended with a success answer and the page is at rest
RunComplete ==
  /\ page.phase = "open" /\ page.fetcherState = "idle"
  /\ page.data.kind = "ok" /\ page.data.isComplete
  /\ ~page.effectPending

\* C37: within one sync run of app._index.jsx the counters of each chunk answer
\* are added to the cumulative totals at most once, however often the effect
\* runs on the same answer: no chunk key is accumulated twice, the totals are
\* at every moment the sums over the distinct chunks counted, and when the run
\* is complete every chunk answer received has been counted.
C37_AddedOnce ==
  page.phase = "open" =>
    /\ \A i, j \in DOMAIN page.accumulated :
         i # j => page.accumulated[i] # page.accumulated[j]
    /\ \A i, j \in DeliveredChunks :
         i # j => chunkKey(page.delivered[i]) # chunkKey(page.delivered[j])
    /\ page.cumulativeResults =
         [updated |-> SumOver(Counted, "successful"),
          noChange |-> SumOver(Counted, "noChange"),
          errors |-> SumOver(Counted, "errors"),
          notFound |-> SumOver(Counted, "notFound")]
    /\ RunComplete => Counted = DeliveredChunks

\* a complete run of several chunks in which the effect ran twice on the last
\* answer and the totals are not zero
C37_Witness ==
  /\ RunComplete
  /\ page.runsOnData >= 2
  /\ Len(page.accumulated) >= 2
  /\ page.cumulativeResults.updated >= 1
  /\ page.cumulativeResults.notFound >= 1

\* ---------------------------------------------------------------- C38
\* C38 as stated: the page submits one request for the nextOffset of each
\* chunk answer that is not the last, so that no offset is requested twice
\* within one sync run.
C38_AsStated ==
  page.phase = "open" =>
    \A i, j \in DOMAIN page.requests :
      i # j => page.requests[i] # page.requests[j]

====
